---- MODULE Spec2Model ----
(***************************************************************************)
(* Rosette identification: boundary extraction, junction (vertex)          *)
(* detection, junction/rosette clustering and the neighbor relations,      *)
(* modelled from src/src/cell_segmentation.py, src/src/vertex_detection.py *)
(* and src/src/rosette_detection.py.                                       *)
(*                                                                         *)
(* Pixels are <<y, x>> (row, column) as numpy yields them; junction        *)
(* locations are <<x, y>> as the code stores them.  List indices are       *)
(* 1-based here and 0-based in the code.  Distances are compared squared:  *)
(* sqrt(d2) <= r is d2 <= r*r for r >= 0, and r = 1.5*R, 0.5*R are kept    *)
(* exact by scaling both sides by 4.                                       *)
(***************************************************************************)
EXTENDS Integers, Sequences, FiniteSets, TLC

\* ---------------------------------------------------------------- bounds
\* largest image area, in pixels, of the pipeline specification (Spec)
MaxPixels == 4
\* largest image area of the boundary specification (SpecBoundary)
MaxBndPixels == 9
\* largest cell label of the pipeline specification
MaxLabel == 3
\* largest vertex_radius of the pipeline specification
MaxR == 2
\* clustering specification (SpecCluster): longest input list and largest
\* x coordinate of a junction
MaxCand == 3
MaxX == 3
\* metrics specification (SpecPrepare): largest junction cardinality and
\* longest junction list and rosette list
MaxCard == 9
MaxJunctions == 2
\* stage specification (SpecStages): widest image row and largest label
MaxStageW == 2
MaxStageLabel == 2
\* sampling specification (SpecSample): the foreground pixel counts are
\* q * SampleTarget + r with q <= MaxStride and r within Margin of 0, of
\* SampleTarget / 2 and of SampleTarget - 1
MaxStride == 3
Margin == 9
\* viewer specification (SpecViewer): width of the one-row canvas and the
\* largest number of rosettes on the page
ViewW == 24
MaxViewRosettes == 2

VARIABLES
    pc,                   \* position in the pipeline / in the clustering loop
    shape,                \* <<rows, columns>> of the image
    mask,                 \* labelled image: pixel -> label, 0 is background
    valid_cells,          \* list of valid cell labels
    cell_properties,      \* label -> [mask, area]
    cell_boundaries,      \* label -> set of boundary pixels
    vertex_radius,
    min_cells_for_vertex, \* K of the find_vertices call
    min_cells_for_rosette,
    candidates,           \* find_vertices: raw `vertices` list before merging
    all_vertices,         \* result of find_vertices with K = 3
    rosette_vertices,     \* result of find_vertices with K = min_cells_for_rosette
    rosettes,             \* result of cluster_vertices
    pass,                 \* which clustering loop runs: "vertex" or "rosette"
    loop_list,            \* the list the clustering loop enumerates
    i,                    \* loop index of the clustering loop
    used,                 \* clustering loop: set of absorbed indices
    merged_vertices,      \* clustering loop: junctions emitted so far
    nearby,               \* clustering loop: nearby_indices of each emission
    neighbors,            \* calculate_cell_neighbors: label -> neighbor set
    cell_neighbors,       \* calculate_cell_neighbors: label -> count
    pid_cell_neighbors,   \* prepare_interactive_data: co-junction neighbors
    cell_data,            \* prepare_interactive_data: label -> metrics record
    rosette_data,         \* prepare_interactive_data: list of rosette records
    cell_to_rosettes,     \* prepare_interactive_data: label -> rosette indices
    junction_counts,      \* count_junction_participation: label -> counts
    raised,               \* exception a stage call ended with, or "none"
    n_points,             \* find_vertices: len(sample_points) before slicing
    stride,               \* find_vertices: sample_stride
    sampled,              \* find_vertices: positions kept by [::sample_stride]
    cell_pixels,          \* prepare_interactive_data: label -> list of [y, x]
    imgs,                 \* process_single_image: the images loaded
    stages_run,           \* process_single_image: the stage calls made, in order
    result,               \* process_single_image: the dictionary returned
    output_file,          \* process_single_image: "absent" or "written"
    pixelToCellMap,       \* viewer: pixel -> label, built when the image loads
    removedRosettes,      \* viewer: indices of the rosettes removed
    currentHighlightedRosettes, \* viewer: indices highlighted by the hover
    rosette_count         \* viewer: text of the element rosette-count

vars == <<pc, shape, mask, valid_cells, cell_properties, cell_boundaries,
          vertex_radius, min_cells_for_vertex, min_cells_for_rosette,
          candidates, all_vertices, rosette_vertices, rosettes, pass, loop_list, i, used,
          merged_vertices, nearby, neighbors, cell_neighbors,
          pid_cell_neighbors, cell_data, rosette_data, cell_to_rosettes, cell_pixels,
          junction_counts, raised, n_points, stride, sampled,
          imgs, stages_run, result, output_file, pixelToCellMap,
          removedRosettes, currentHighlightedRosettes, rosette_count>>

\* ---------------------------------------------------------------- helpers
Range(s) == {s[k] : k \in 1..Len(s)}

Max2(a, b) == IF a >= b THEN a ELSE b

SetMin(S) == CHOOSE m \in S : \A n \in S : m <= n

\* the integers of S in ascending order
SortedSeq(S) ==
    [k \in 1..Cardinality(S) |->
        CHOOSE e \in S : Cardinality({f \in S : f < e}) = k - 1]

RECURSIVE SumSet(_, _)
SumSet(f, S) ==
    IF S = {} THEN 0
    ELSE LET e == CHOOSE e \in S : TRUE IN f[e] + SumSet(f, S \ {e})

\* float -> int conversion of numpy astype(int): truncation toward zero
TruncDiv(a, n) == IF a >= 0 THEN a \div n ELSE -((-a) \div n)

Pixels(shp) == (0..(shp[1] - 1)) \X (0..(shp[2] - 1))

Dist2(p, q) == (p[1] - q[1]) * (p[1] - q[1]) + (p[2] - q[2]) * (p[2] - q[2])

\* pixels of S in row-major order, the order of np.where
RowMajor(S, shp) ==
    LET key(p) == p[1] * shp[2] + p[2]
    IN  [k \in 1..Cardinality(S) |->
            CHOOSE p \in S : Cardinality({q \in S : key(q) < key(p)}) = k - 1]

\* ------------------------------------------------- cell_segmentation.py
\* detect_cells, after the segmentation call: labels present in the mask,
\* ascending (np.unique), kept when min_area <= area <= max_area
CellMask(msk, shp, c) == {p \in Pixels(shp) : msk[p] = c}

DetectValidCells(msk, shp, min_area, max_area) ==
    SortedSeq({c \in 1..MaxLabel :
                 /\ CellMask(msk, shp, c) # {}
                 /\ min_area <= Cardinality(CellMask(msk, shp, c))
                 /\ Cardinality(CellMask(msk, shp, c)) <= max_area})

DetectCellProperties(msk, shp, cells) ==
    [c \in Range(cells) |->
        [mask |-> CellMask(msk, shp, c),
         area |-> Cardinality(CellMask(msk, shp, c))]]

\* scipy binary_erosion, default arguments: 4-connected cross, one
\* iteration, border_value = 0 (pixels outside the image count as unset)
border_value == 0

Cross(p) == {p, <<p[1] - 1, p[2]>>, <<p[1] + 1, p[2]>>,
                <<p[1], p[2] - 1>>, <<p[1], p[2] + 1>>}

binary_erosion_border_set(cell_mask, shp) ==
    {p \in Pixels(shp) :
        \A q \in Cross(p) : q \in Pixels(shp) => q \in cell_mask}

binary_erosion(cell_mask, shp) ==
    {p \in Pixels(shp) :
        \A q \in Cross(p) :
            IF q \in Pixels(shp) THEN q \in cell_mask
            ELSE border_value = 1}

\* boundary = cell_mask & ~eroded
Boundary(cell_mask, shp) == cell_mask \ binary_erosion(cell_mask, shp)

extract_cell_boundaries(cells, props, shp) ==
    [c \in Range(cells) |-> Boundary(props[c].mask, shp)]

\* ------------------------------------------------- vertex_detection.py
\* sample_points: the foreground pixels in row-major order, every
\* sample_stride-th of them starting with the first
SampleTarget == 10000

sample_stride_ceil(n) == Max2(1, (n + SampleTarget - 1) \div SampleTarget)

sample_stride(n) == Max2(1, n \div SampleTarget)

\* sample_points[::sample_stride]: the zero-based positions kept of a list
\* of n points
slice_positions(n, s) == {j \in 0..(n - 1) : j % s = 0}

SamplePoints(msk, shp) ==
    LET fg == RowMajor({p \in Pixels(shp) : msk[p] > 0}, shp)
        s  == sample_stride(Len(fg))
        n  == (Len(fg) + s - 1) \div s
    IN  [k \in 1..n |-> fg[(k - 1) * s + 1]]

\* np.min of the distances from point to the boundary pixels, squared
MinDist2(boundaries, point) == SetMin({Dist2(b, point) : b \in boundaries})

\* min_dist <= vertex_radius
IsNear(d2, R) == d2 <= R * R

\* min_dist <= vertex_radius * 0.5
IsVeryCloseWide(d2, R) == d2 <= R * R

IsVeryClose(d2, R) == 4 * d2 <= R * R

cells_near_point(point, cells, bnds, R) ==
    SelectSeq(cells, LAMBDA c : IsNear(MinDist2(bnds[c], point), R))

\* appended only inside the `min_dist <= vertex_radius` branch
cells_very_close(point, cells, bnds, R) ==
    SelectSeq(cells, LAMBDA c : /\ IsNear(MinDist2(bnds[c], point), R)
                                /\ IsVeryClose(MinDist2(bnds[c], point), R))

AcceptedExactly(point, cells, bnds, R, K) ==
    /\ Len(cells_near_point(point, cells, bnds, R)) = K
    /\ Len(cells_very_close(point, cells, bnds, R)) >= 2

AcceptedVeryCloseOnly(point, cells, bnds, R, K) ==
    Len(cells_very_close(point, cells, bnds, R)) >= 2

Accepted(point, cells, bnds, R, K) ==
    /\ Len(cells_near_point(point, cells, bnds, R)) >= K
    /\ Len(cells_very_close(point, cells, bnds, R)) >= 2

RawVertex(point, cells, bnds, R) ==
    [location  |-> <<point[2], point[1]>>,
     cells     |-> cells_near_point(point, cells, bnds, R),
     num_cells |-> Len(cells_near_point(point, cells, bnds, R))]

\* the `vertices` list after the loop over sample_points
RECURSIVE RawVerticesFrom(_, _, _, _, _, _)
RawVerticesFrom(k, points, cells, bnds, R, K) ==
    IF k > Len(points) THEN <<>>
    ELSE (IF Accepted(points[k], cells, bnds, R, K)
          THEN <<RawVertex(points[k], cells, bnds, R)>>
          ELSE <<>>)
         \o RawVerticesFrom(k + 1, points, cells, bnds, R, K)

RawVertices(msk, shp, cells, bnds, R, K) ==
    RawVerticesFrom(1, SamplePoints(msk, shp), cells, bnds, R, K)

\* ---------------------------------------- merging loop of both passes
\* vertex_detection.py 86-117 (pass "vertex", merge_distance = 1.0 * R) and
\* rosette_detection.py 61-92 (pass "rosette", merge_distance = 1.5 * R)
MergeFactorX2Same(ps) == 2

\* twice the factor of merge_distance
MergeFactorX2(ps) == IF ps = "vertex" THEN 2 ELSE 3

\* distances <= merge_distance
WithinMergeStrict(d2, R, ps) ==
    4 * d2 < (MergeFactorX2(ps) * R) * (MergeFactorX2(ps) * R)

WithinMerge(d2, R, ps) ==
    4 * d2 <= (MergeFactorX2(ps) * R) * (MergeFactorX2(ps) * R)

nearby_indices(list, k, R, ps) ==
    {j \in 1..Len(list) :
        WithinMerge(Dist2(list[j].location, list[k].location), R, ps)}

merged_cells_first(list, nb) == Range(list[SetMin(nb)].cells)

merged_cells(list, nb) == UNION {Range(list[j].cells) : j \in nb}

\* tuple(np.mean(merged_locations, axis=0).astype(int))
avg_location_swapped(list, nb) ==
    [d \in 1..2 |->
        TruncDiv(SumSet([j \in nb |-> list[j].location[3 - d]], nb),
                 Cardinality(nb))]

avg_location_first(list, nb) == list[SetMin(nb)].location

avg_location_ceil(list, nb) ==
    [d \in 1..2 |->
        (SumSet([j \in nb |-> list[j].location[d]], nb) + Cardinality(nb) - 1)
            \div Cardinality(nb)]

avg_location(list, nb) ==
    [d \in 1..2 |->
        TruncDiv(SumSet([j \in nb |-> list[j].location[d]], nb),
                 Cardinality(nb))]

\* len(merged_cells)
merged_num_cells_stale(list, nb) == SumSet([j \in nb |-> list[j].num_cells], nb)

merged_num_cells(list, nb) == Cardinality(merged_cells(list, nb))

\* list(merged_cells): the labels of the set, each once; Python fixes no
\* order for it and nothing below depends on the order chosen here
MergedVertex(list, nb) ==
    [location  |-> avg_location(list, nb),
     cells     |-> SortedSeq(merged_cells(list, nb)),
     num_cells |-> merged_num_cells(list, nb)]

\* one iteration of `for i, vertex in enumerate(...)` on the loop state
LoopStep(list, st, R, ps) ==
    IF st.i \in st.used
    THEN [st EXCEPT !.i = @ + 1]
    ELSE LET nb == nearby_indices(list, st.i, R, ps)
         IN  [i      |-> st.i + 1,
              used   |-> st.used \cup nb,
              merged |-> Append(st.merged, MergedVertex(list, nb)),
              nearby |-> Append(st.nearby, nb)]

RECURSIVE LoopRun(_, _, _, _)
LoopRun(list, st, R, ps) ==
    IF st.i > Len(list) THEN st
    ELSE LoopRun(list, LoopStep(list, st, R, ps), R, ps)

LoopStart == [i |-> 1, used |-> {}, merged |-> <<>>, nearby |-> <<>>]

MergeVertices(list, R, ps) == LoopRun(list, LoopStart, R, ps).merged

find_vertices(msk, shp, cells, bnds, R, K) ==
    LET vertices == RawVertices(msk, shp, cells, bnds, R, K)
    IN  IF Len(vertices) = 0 THEN <<>>
        ELSE MergeVertices(vertices, R, "vertex")

\* ------------------------------------------------- rosette_detection.py
filter_all_vertices(vertices, m) == vertices

filter_reversed(vertices, m) ==
    SelectSeq(vertices, LAMBDA v : v.num_cells <= m)

filter_rosette_vertices(vertices, m) ==
    SelectSeq(vertices, LAMBDA v : v.num_cells >= m)

cluster_vertices(vertices, R, m) ==
    LET filtered == filter_rosette_vertices(vertices, m)
    IN  IF Len(filtered) = 0 THEN <<>>
        ELSE MergeVertices(filtered, R, "rosette")

calculate_perimeter(cell_mask, shp) == Cardinality(Boundary(cell_mask, shp))

\* np.min(distances) <= 2
AdjacentWithinWide(d2) == d2 <= 9

AdjacentWithin(d2) == d2 <= 4

\* the `neighbors` set of cell_id at the end of its outer iteration
neighbors_of_later(cell_id, cells, bnds) ==
    {other_id \in Range(cells) :
        /\ other_id > cell_id
        /\ \E point \in bnds[cell_id] :
               AdjacentWithin(MinDist2(bnds[other_id], point))}

neighbors_of(cell_id, cells, bnds) ==
    {other_id \in Range(cells) :
        /\ other_id # cell_id
        /\ \E point \in bnds[cell_id] :
               AdjacentWithin(MinDist2(bnds[other_id], point))}

\* rosette_detection.py 131-146: the positions <<p, q>> of valid_cells for
\* which the inner loop reaches the distance test of cells[p] against
\* cells[q]; only other_id == cell_id is skipped
adjacency_tests(cells) ==
    {t \in (1..Len(cells)) \X (1..Len(cells)) : cells[t[2]] # cells[t[1]]}

\* how many of those tests are of the unordered pair {a, b}
tests_of_pair(cells, a, b) ==
    Cardinality({t \in adjacency_tests(cells) :
                    {cells[t[1]], cells[t[2]]} = {a, b}})

calculate_cell_neighbors(cells, bnds) ==
    [c \in Range(cells) |-> Cardinality(neighbors_of(c, cells, bnds))]

\* prepare_interactive_data: cell_neighbors = defaultdict(set); a key
\* exists once a first neighbor has been added for it
co_junction_neighbors(vertices, c) ==
    {o \in UNION {Range(v.cells) : v \in Range(vertices)} :
        /\ o # c
        /\ \E v \in Range(vertices) : c \in Range(v.cells) /\ o \in Range(v.cells)}

prepare_cell_neighbors(vertices) ==
    [c \in {c \in UNION {Range(v.cells) : v \in Range(vertices)} :
                co_junction_neighbors(vertices, c) # {}}
        |-> co_junction_neighbors(vertices, c)]

\* the number of positions of a list that hold x
Occurrences(list, x) == Cardinality({k \in DOMAIN list : list[k] = x})

\* the list with `idx` once for every position of list[idx].cells that
\* holds cell_id, indices ascending: what the nested loops of 283-285 and
\* 290-296 append for one cell (enumerate counts from 0)
RECURSIVE AppendedFor(_, _, _)
AppendedFor(list, cell_id, k) ==
    IF k > Len(list) THEN <<>>
    ELSE [n \in 1..Occurrences(list[k].cells, cell_id) |-> k - 1]
         \o AppendedFor(list, cell_id, k + 1)

CellsOf(list) == UNION {Range(v.cells) : v \in Range(list)}

\* cell_to_rosettes = defaultdict(list), keys added on append
enumerate_from_one(rosette_list) ==
    [c \in CellsOf(rosette_list) |->
        [n \in DOMAIN AppendedFor(rosette_list, c, 1) |->
            AppendedFor(rosette_list, c, 1)[n] + 1]]

build_cell_to_rosettes(rosette_list) ==
    [c \in CellsOf(rosette_list) |-> AppendedFor(rosette_list, c, 1)]

\* cell_to_vertices[cell_id]: one entry per junction the cell is listed in
build_cell_to_vertices(vertices) ==
    [c \in CellsOf(vertices) |->
        LET ids == AppendedFor(vertices, c, 1)
        IN  [n \in DOMAIN ids |->
                [vertex_id |-> ids[n],
                 location  |-> vertices[ids[n] + 1].location,
                 num_cells |-> vertices[ids[n] + 1].num_cells]]]

Buckets == {"3-cell", "4-cell", "5-cell", "6-cell", "7-cell", "8+ cell"}

\* the if / elif chain of 365-376
bucket_of(n) ==
    IF n = 3 THEN "3-cell"
    ELSE IF n = 4 THEN "4-cell"
    ELSE IF n = 5 THEN "5-cell"
    ELSE IF n = 6 THEN "6-cell"
    ELSE IF n = 7 THEN "7-cell"
    ELSE "8+ cell"

count_junctions(cell_vertices) ==
    [b \in Buckets |->
        Cardinality({n \in DOMAIN cell_vertices :
                        bucket_of(cell_vertices[n].num_cells) = b})]

\* 335-344: the length of the boundary entry, or, without an entry, the
\* boundary pixels counted on the cell's mask
perimeter_of_default_zero(cell_id, props, bnds, shp) ==
    IF cell_id \in DOMAIN bnds THEN Cardinality(bnds[cell_id]) ELSE 0

perimeter_of(cell_id, props, bnds, shp) ==
    IF cell_id \in DOMAIN bnds
    THEN Cardinality(bnds[cell_id])
    ELSE Cardinality(Boundary(props[cell_id].mask, shp))

\* cells_to_process of 316
cells_to_process(cells, rosette_list) ==
    SelectSeq(cells, LAMBDA cid : cid \in DOMAIN build_cell_to_rosettes(rosette_list))

\* 327-333: np.where of the cell's mask, stacked as [y, x] rows
prepare_cell_pixels(cells, props, rosette_list, shp) ==
    [cell_id \in Range(cells_to_process(cells, rosette_list)) |->
        RowMajor(props[cell_id].mask, shp)]

prepare_cell_data(cells, props, bnds, vertices, rosette_list, shp) ==
    LET nbrs == prepare_cell_neighbors(vertices)
        c2v  == build_cell_to_vertices(vertices)
    IN  [cell_id \in Range(cells_to_process(cells, rosette_list)) |->
            LET cell_vertices == IF cell_id \in DOMAIN c2v
                                 THEN c2v[cell_id] ELSE <<>>
            IN  [area            |-> props[cell_id].area,
                 perimeter       |-> perimeter_of(cell_id, props, bnds, shp),
                 in_rosette      |-> TRUE,
                 num_neighbors   |-> IF cell_id \in DOMAIN nbrs
                                     THEN Cardinality(nbrs[cell_id]) ELSE 0,
                 num_vertices    |-> Len(cell_vertices),
                 junction_counts |-> count_junctions(cell_vertices),
                 total_junctions |-> Len(cell_vertices)]]

\* 400-408
prepare_rosette_data(rosette_list) ==
    [idx \in 1..Len(rosette_list) |->
        [id        |-> idx - 1,
         cells     |-> rosette_list[idx].cells,
         center    |-> rosette_list[idx].location,
         num_cells |-> rosette_list[idx].num_cells]]

\* ------------------------------------------------------- csv_export.py
Columns == {"junctions_3_cell", "junctions_4_cell", "junctions_5_cell",
            "junctions_6_cell", "junctions_7_cell", "junctions_8plus_cell"}

\* the if / elif chain of 105-116
category_of(num_cells) ==
    IF num_cells = 3 THEN "junctions_3_cell"
    ELSE IF num_cells = 4 THEN "junctions_4_cell"
    ELSE IF num_cells = 5 THEN "junctions_5_cell"
    ELSE IF num_cells = 6 THEN "junctions_6_cell"
    ELSE IF num_cells = 7 THEN "junctions_7_cell"
    ELSE "junctions_8plus_cell"

\* one increment of the category and of total_junctions for every
\* position of a junction's cells that holds a cell of valid_cells
count_junction_participation(vertices, cells) ==
    [cell_id \in Range(cells) |->
        LET ids == AppendedFor(vertices, cell_id, 1)
        IN  [col \in Columns \cup {"total_junctions"} |->
                IF col = "total_junctions" THEN Len(ids)
                ELSE Cardinality({n \in DOMAIN ids :
                        category_of(vertices[ids[n] + 1].num_cells) = col})]]

\* ------------------------------------------- exceptions of the stages
\* the first element of a list of outcomes that is an exception
RECURSIVE FirstRaise(_)
FirstRaise(outcomes) ==
    IF outcomes = <<>> THEN "none"
    ELSE IF Head(outcomes) # "none" THEN Head(outcomes)
    ELSE FirstRaise(Tail(outcomes))

\* vertex_detection.py 57-61 for one cell: cell_boundaries[cell_id] raises
\* KeyError without an entry, np.min raises ValueError on an empty array
boundary_read_raises(cell_id, bnds) ==
    IF cell_id \notin DOMAIN bnds THEN "KeyError"
    ELSE IF bnds[cell_id] = {} THEN "ValueError"
    ELSE "none"

\* find_vertices: the loop of 56-66 runs for the first sample point, over
\* valid_cells in order; without sample points it never runs
find_vertices_raises(msk, shp, cells, bnds) ==
    IF Len(SamplePoints(msk, shp)) = 0 THEN "none"
    ELSE FirstRaise([k \in 1..Len(cells) |->
                        boundary_read_raises(cells[k], bnds)])

\* calculate_cell_neighbors 135-146 for one other_id: the lookup of 139,
\* then np.min of 144 for the first point of `boundary`, if it has one
other_read_raises(cell_id, other_id, bnds) ==
    IF other_id = cell_id THEN "none"
    ELSE IF other_id \notin DOMAIN bnds THEN "KeyError"
    ELSE IF bnds[cell_id] # {} /\ bnds[other_id] = {} THEN "ValueError"
    ELSE "none"

\* one iteration of the outer loop: the lookup of 133, then the inner loop
neighbors_of_raises(cell_id, cells, bnds) ==
    IF cell_id \notin DOMAIN bnds THEN "KeyError"
    ELSE FirstRaise([k \in 1..Len(cells) |->
                        other_read_raises(cell_id, cells[k], bnds)])

calculate_cell_neighbors_raises(cells, bnds) ==
    FirstRaise([k \in 1..Len(cells) |->
                   neighbors_of_raises(cells[k], cells, bnds)])

\* rosette_detection.py 411-412: np.mean of the list of counts; on an empty
\* list numpy returns nan with a RuntimeWarning and raises nothing
mean_raises_on_empty(values) ==
    IF Len(values) = 0 THEN "ZeroDivisionError" ELSE "none"

mean_raises(values) == "none"

\* prepare_interactive_data reads cell_properties[cell_id] for the cells it
\* processes (330, 380) and guards every other lookup with `in`
prepare_interactive_data_raises(cells, props, rosette_list) ==
    FirstRaise([k \in 1..Len(cells_to_process(cells, rosette_list)) |->
                  IF cells_to_process(cells, rosette_list)[k] \in DOMAIN props
                  THEN "none" ELSE "KeyError"]
               \o <<mean_raises(cells_to_process(cells, rosette_list))>>)

\* ================================================================ Spec
\* The analysis pipeline in the order of main (src/app.py 308-395): the
\* state after detect_cells, then one action per stage.
Shapes(n) == {shp \in (1..n) \X (1..n) : shp[1] * shp[2] <= n}

\* min_cells_for_vertex of the general pass (src/app.py 328)
GeneralMinCells == 3

NoLoop ==
    /\ pass = "none"
    /\ loop_list = <<>>
    /\ i = 1
    /\ used = {}
    /\ merged_vertices = <<>>
    /\ nearby = <<>>

loopVars == <<pass, loop_list, i, used, merged_vertices, nearby>>

\* src/app.py 186-262 and the script of the generated page have not run
NoApp ==
    /\ imgs = <<>>
    /\ stages_run = <<>>
    /\ result = <<>>
    /\ output_file = "absent"
    /\ pixelToCellMap = <<>>
    /\ removedRosettes = {}
    /\ currentHighlightedRosettes = {}
    /\ rosette_count = 0

appVars == <<imgs, stages_run, result, output_file, pixelToCellMap,
             removedRosettes, currentHighlightedRosettes, rosette_count>>

NoOutputs ==
    /\ n_points = 0
    /\ stride = 1
    /\ sampled = {}
    /\ cell_data = <<>>
    /\ rosette_data = <<>>
    /\ cell_to_rosettes = <<>>
    /\ cell_pixels = <<>>
    /\ junction_counts = <<>>
    /\ raised = "none"
    /\ NoApp

outVars == <<cell_data, rosette_data, cell_to_rosettes, cell_pixels, junction_counts,
             raised>>

inputVars == <<shape, mask, valid_cells, cell_properties, vertex_radius,
               min_cells_for_rosette, n_points, stride, sampled, appVars>>

\* images at least as wide as high; min_area is 1 or 2 and the rosette
\* threshold 2 or 3
Init ==
    /\ pc = "detected"
    /\ shape \in {shp \in Shapes(MaxPixels) : shp[1] <= shp[2]}
    /\ mask \in [Pixels(shape) -> 0..MaxLabel]
    /\ \E min_area \in 1..2 :
          valid_cells = DetectValidCells(mask, shape, min_area,
                                         shape[1] * shape[2])
    /\ cell_properties = DetectCellProperties(mask, shape, valid_cells)
    /\ vertex_radius \in 1..MaxR
    /\ min_cells_for_rosette \in 2..GeneralMinCells
    /\ min_cells_for_vertex = GeneralMinCells
    /\ cell_boundaries = <<>>
    /\ candidates = <<>>
    /\ all_vertices = <<>>
    /\ rosette_vertices = <<>>
    /\ rosettes = <<>>
    /\ neighbors = <<>>
    /\ cell_neighbors = <<>>
    /\ pid_cell_neighbors = <<>>
    /\ NoLoop
    /\ NoOutputs

\* src/app.py 314-321: main exits when no valid cell was detected
CheckValidCells ==
    /\ pc = "detected"
    /\ pc' = IF Len(valid_cells) = 0 THEN "exit" ELSE "boundaries"
    /\ UNCHANGED <<inputVars, loopVars, outVars, min_cells_for_vertex, cell_boundaries,
                   candidates, all_vertices, rosette_vertices, rosettes,
                   neighbors, cell_neighbors, pid_cell_neighbors>>

ExtractCellBoundaries ==
    /\ pc = "boundaries"
    /\ cell_boundaries' =
           extract_cell_boundaries(valid_cells, cell_properties, shape)
    /\ pc' = "find_all"
    /\ UNCHANGED <<inputVars, loopVars, outVars, min_cells_for_vertex,
                   candidates, all_vertices, rosette_vertices, rosettes,
                   neighbors, cell_neighbors, pid_cell_neighbors>>

FindAllVertices ==
    /\ pc = "find_all"
    /\ min_cells_for_vertex' = GeneralMinCells
    /\ candidates' = RawVertices(mask, shape, valid_cells, cell_boundaries,
                                 vertex_radius, GeneralMinCells)
    /\ all_vertices' = find_vertices(mask, shape, valid_cells, cell_boundaries,
                                     vertex_radius, GeneralMinCells)
    /\ pc' = "find_rosette"
    /\ UNCHANGED <<inputVars, loopVars, outVars, cell_boundaries, rosette_vertices,
                   rosettes, neighbors, cell_neighbors, pid_cell_neighbors>>

FindRosetteVertices ==
    /\ pc = "find_rosette"
    /\ min_cells_for_vertex' = min_cells_for_rosette
    /\ candidates' = RawVertices(mask, shape, valid_cells, cell_boundaries,
                                 vertex_radius, min_cells_for_rosette)
    /\ rosette_vertices' =
           find_vertices(mask, shape, valid_cells, cell_boundaries,
                         vertex_radius, min_cells_for_rosette)
    /\ pc' = "cluster"
    /\ UNCHANGED <<inputVars, loopVars, outVars, cell_boundaries, all_vertices,
                   rosettes, neighbors, cell_neighbors, pid_cell_neighbors>>

ClusterVertices ==
    /\ pc = "cluster"
    /\ rosettes' = cluster_vertices(rosette_vertices, vertex_radius,
                                    min_cells_for_rosette)
    /\ pc' = "neighbors"
    /\ UNCHANGED <<inputVars, loopVars, outVars, min_cells_for_vertex, cell_boundaries,
                   candidates, all_vertices, rosette_vertices,
                   neighbors, cell_neighbors, pid_cell_neighbors>>

CalculateCellNeighbors ==
    /\ pc = "neighbors"
    /\ neighbors' = [c \in Range(valid_cells) |->
                        neighbors_of(c, valid_cells, cell_boundaries)]
    /\ cell_neighbors' = calculate_cell_neighbors(valid_cells, cell_boundaries)
    /\ pc' = "prepare"
    /\ UNCHANGED <<inputVars, loopVars, outVars, min_cells_for_vertex, cell_boundaries,
                   candidates, all_vertices, rosette_vertices, rosettes,
                   pid_cell_neighbors>>

\* the records of 403-408 written into the rosettes themselves
PrepareInteractiveDataInPlace ==
    /\ pc = "prepare"
    /\ pid_cell_neighbors' = prepare_cell_neighbors(all_vertices)
    /\ cell_to_rosettes' = build_cell_to_rosettes(rosettes)
    /\ cell_pixels' = prepare_cell_pixels(valid_cells, cell_properties,
                                         rosettes, shape)
    /\ cell_data' = prepare_cell_data(valid_cells, cell_properties,
                                      cell_boundaries, all_vertices, rosettes,
                                      shape)
    /\ rosette_data' = prepare_rosette_data(rosettes)
    /\ rosettes' = rosette_data'
    /\ pc' = "done"
    /\ UNCHANGED <<inputVars, loopVars, min_cells_for_vertex, cell_boundaries,
                   candidates, all_vertices, rosette_vertices,
                   neighbors, cell_neighbors, junction_counts, raised>>

\* prepare_interactive_data on the general junctions and the rosettes
PrepareInteractiveData ==
    /\ pc = "prepare"
    /\ pid_cell_neighbors' = prepare_cell_neighbors(all_vertices)
    /\ cell_to_rosettes' = build_cell_to_rosettes(rosettes)
    /\ cell_pixels' = prepare_cell_pixels(valid_cells, cell_properties,
                                         rosettes, shape)
    /\ cell_data' = prepare_cell_data(valid_cells, cell_properties,
                                      cell_boundaries, all_vertices, rosettes,
                                      shape)
    /\ rosette_data' = prepare_rosette_data(rosettes)
    /\ pc' = "done"
    /\ UNCHANGED <<inputVars, loopVars, min_cells_for_vertex, cell_boundaries,
                   candidates, all_vertices, rosette_vertices, rosettes,
                   neighbors, cell_neighbors, junction_counts, raised>>

Next ==
    \/ CheckValidCells
    \/ ExtractCellBoundaries
    \/ FindAllVertices
    \/ FindRosetteVertices
    \/ ClusterVertices
    \/ CalculateCellNeighbors
    \/ PrepareInteractiveData

Spec == Init /\ [][Next]_vars

\* ======================================================== SpecBoundary
\* extract_cell_boundaries on one cell whose mask is any set of pixels of
\* the image, the empty set and the whole image included.
InitBoundary ==
    /\ pc = "boundaries"
    /\ shape \in Shapes(MaxBndPixels)
    /\ \E cell_mask \in SUBSET Pixels(shape) :
          /\ mask = [p \in Pixels(shape) |-> IF p \in cell_mask THEN 1 ELSE 0]
          /\ cell_properties =
                 [c \in {1} |-> [mask |-> cell_mask,
                                 area |-> Cardinality(cell_mask)]]
    /\ valid_cells = <<1>>
    /\ vertex_radius = 1
    /\ min_cells_for_rosette = 2
    /\ min_cells_for_vertex = GeneralMinCells
    /\ cell_boundaries = <<>>
    /\ candidates = <<>>
    /\ all_vertices = <<>>
    /\ rosette_vertices = <<>>
    /\ rosettes = <<>>
    /\ neighbors = <<>>
    /\ cell_neighbors = <<>>
    /\ pid_cell_neighbors = <<>>
    /\ NoLoop
    /\ NoOutputs

NextBoundary == ExtractCellBoundaries

SpecBoundary == InitBoundary /\ [][NextBoundary]_vars

\* ========================================================= SpecCluster
\* The merging loop of find_vertices (pass "vertex", on the raw list in
\* `candidates`) and cluster_vertices (pass "rosette", on the list in
\* `rosette_vertices`), one action per loop iteration.
\* junctions on one image row, with the cell lists of three junctions
\* around the labels 1, 2, 3, the rosette threshold 2 and vertex_radius 1
\* or 2
Locations == (0..MaxX) \X {0}

CellLists == {<<3>>, <<1, 2>>, <<2, 3>>}

Junctions ==
    {[location |-> loc, cells |-> cs, num_cells |-> Len(cs)] :
        loc \in Locations, cs \in CellLists}

JunctionLists == UNION {[1..n -> Junctions] : n \in 0..MaxCand}

\* raw lists of find_vertices: one entry per accepted sample point, in
\* row-major order of the points, each with at least two cells
RawKey(v) == v.location[2] * (MaxX + 1) + v.location[1]

RawLists ==
    {l \in JunctionLists :
        /\ \A k \in 1..Len(l) : l[k].num_cells >= 2
        /\ \A k \in 1..(Len(l) - 1) : RawKey(l[k]) < RawKey(l[k + 1])}

InitCluster ==
    /\ pc = "start"
    /\ pass \in {"vertex", "rosette"}
    /\ IF pass = "vertex"
       THEN /\ candidates \in RawLists
            /\ rosette_vertices = <<>>
            /\ min_cells_for_rosette = 2
       ELSE /\ candidates = <<>>
            /\ rosette_vertices \in JunctionLists
            /\ min_cells_for_rosette = 2
    /\ vertex_radius \in {1, 2}
    /\ min_cells_for_vertex = 2
    /\ shape = <<1, MaxX + 1>>
    /\ mask = <<>>
    /\ valid_cells = <<>>
    /\ cell_properties = <<>>
    /\ cell_boundaries = <<>>
    /\ all_vertices = <<>>
    /\ rosettes = <<>>
    /\ neighbors = <<>>
    /\ cell_neighbors = <<>>
    /\ pid_cell_neighbors = <<>>
    /\ NoOutputs
    /\ loop_list = <<>>
    /\ i = 1
    /\ used = {}
    /\ merged_vertices = <<>>
    /\ nearby = <<>>

fixedVars == <<shape, mask, valid_cells, cell_properties, cell_boundaries,
               vertex_radius, min_cells_for_vertex, min_cells_for_rosette,
               candidates, rosette_vertices, pass, neighbors, cell_neighbors,
               pid_cell_neighbors, cell_data, rosette_data, cell_to_rosettes, cell_pixels,
               junction_counts, raised, n_points, stride, sampled, appVars>>

\* vertex_detection.py 81-91: empty raw list returns [], else the loop starts
BeginVertexMerge ==
    /\ pc = "start"
    /\ pass = "vertex"
    /\ loop_list' = candidates
    /\ pc' = IF Len(candidates) = 0 THEN "done" ELSE "loop"
    /\ UNCHANGED <<fixedVars, all_vertices, rosettes, i, used,
                   merged_vertices, nearby>>

\* rosette_detection.py 55-66: filter, return [] when nothing qualifies
FilterRosetteVertices ==
    /\ pc = "start"
    /\ pass = "rosette"
    /\ loop_list' = filter_rosette_vertices(rosette_vertices,
                                            min_cells_for_rosette)
    /\ pc' = IF Len(loop_list') = 0 THEN "done" ELSE "loop"
    /\ UNCHANGED <<fixedVars, all_vertices, rosettes, i, used,
                   merged_vertices, nearby>>

LoopState == [i |-> i, used |-> used, merged |-> merged_vertices,
              nearby |-> nearby]

\* `if i in used: continue`
LoopSkip ==
    /\ pc = "loop"
    /\ i <= Len(loop_list)
    /\ i \in used
    /\ i' = LoopStep(loop_list, LoopState, vertex_radius, pass).i
    /\ UNCHANGED <<fixedVars, pc, all_vertices, rosettes, loop_list, used,
                   merged_vertices, nearby>>

\* one seed: absorb nearby_indices and emit the merged junction
LoopMerge ==
    /\ pc = "loop"
    /\ i <= Len(loop_list)
    /\ i \notin used
    /\ LET st == LoopStep(loop_list, LoopState, vertex_radius, pass)
       IN  /\ i' = st.i
           /\ used' = st.used
           /\ merged_vertices' = st.merged
           /\ nearby' = st.nearby
    /\ UNCHANGED <<fixedVars, pc, all_vertices, rosettes, loop_list>>

\* `return merged_vertices`
LoopReturn ==
    /\ pc = "loop"
    /\ i > Len(loop_list)
    /\ IF pass = "vertex"
       THEN all_vertices' = merged_vertices /\ UNCHANGED rosettes
       ELSE rosettes' = merged_vertices /\ UNCHANGED all_vertices
    /\ pc' = "done"
    /\ UNCHANGED <<fixedVars, loop_list, i, used, merged_vertices, nearby>>

NextCluster ==
    \/ BeginVertexMerge
    \/ FilterRosetteVertices
    \/ LoopSkip
    \/ LoopMerge
    \/ LoopReturn

SpecCluster == InitCluster /\ [][NextCluster]_vars

\* the list the pass was given and the list it returned
PassInput == IF pass = "vertex" THEN candidates ELSE rosette_vertices

PassOutput == IF pass = "vertex" THEN all_vertices ELSE rosettes

\* the same pass run as one call
RunPass(list) ==
    IF pass = "vertex"
    THEN (IF Len(list) = 0 THEN <<>>
          ELSE MergeVertices(list, vertex_radius, "vertex"))
    ELSE cluster_vertices(list, vertex_radius, min_cells_for_rosette)

\* ========================================================= SpecPrepare
\* prepare_interactive_data and count_junction_participation called on
\* junction lists of every cardinality from 2 to MaxCard. The image is one
\* row of MaxCard one-pixel cells, all valid; a junction of cardinality n
\* lists the cells 1..n; the rosettes have the cell lists of CellLists.
PrefixJunctions ==
    {[location |-> <<n, 0>>, cells |-> [k \in 1..n |-> k], num_cells |-> n] :
        n \in 2..MaxCard}

PaletteRosettes ==
    {[location |-> <<Len(cl), 0>>, cells |-> cl, num_cells |-> Len(cl)] :
        cl \in CellLists}

ListsOver(S, n) == UNION {[1..m -> S] : m \in 0..n}

InitPrepare ==
    /\ pc = "ready"
    /\ shape = <<1, MaxCard>>
    /\ mask = [p \in Pixels(shape) |-> p[2] + 1]
    /\ valid_cells = [k \in 1..MaxCard |-> k]
    /\ cell_properties =
           [c \in 1..MaxCard |-> [mask |-> CellMask(mask, shape, c),
                                  area |-> Cardinality(CellMask(mask, shape, c))]]
    /\ cell_boundaries =
           extract_cell_boundaries(valid_cells, cell_properties, shape)
    /\ all_vertices \in ListsOver(PrefixJunctions, MaxJunctions)
    /\ rosettes \in ListsOver(PaletteRosettes, MaxJunctions)
    /\ vertex_radius = 1
    /\ min_cells_for_rosette = 2
    /\ min_cells_for_vertex = 2
    /\ candidates = <<>>
    /\ rosette_vertices = <<>>
    /\ neighbors = <<>>
    /\ cell_neighbors = <<>>
    /\ pid_cell_neighbors = <<>>
    /\ NoLoop
    /\ NoOutputs

CallPrepareInteractiveData ==
    /\ pc = "ready"
    /\ pid_cell_neighbors' = prepare_cell_neighbors(all_vertices)
    /\ cell_to_rosettes' = build_cell_to_rosettes(rosettes)
    /\ cell_pixels' = prepare_cell_pixels(valid_cells, cell_properties,
                                         rosettes, shape)
    /\ cell_data' = prepare_cell_data(valid_cells, cell_properties,
                                      cell_boundaries, all_vertices, rosettes,
                                      shape)
    /\ rosette_data' = prepare_rosette_data(rosettes)
    /\ pc' = "prepared"
    /\ UNCHANGED <<inputVars, loopVars, min_cells_for_vertex, cell_boundaries,
                   candidates, all_vertices, rosette_vertices, rosettes,
                   neighbors, cell_neighbors, junction_counts, raised>>

CallCountJunctionParticipation ==
    /\ pc = "prepared"
    /\ junction_counts' = count_junction_participation(all_vertices, valid_cells)
    /\ pc' = "counted"
    /\ UNCHANGED <<inputVars, loopVars, min_cells_for_vertex, cell_boundaries,
                   candidates, all_vertices, rosette_vertices, rosettes,
                   neighbors, cell_neighbors, pid_cell_neighbors, cell_data,
                   rosette_data, cell_to_rosettes, cell_pixels, raised>>

NextPrepare ==
    \/ CallPrepareInteractiveData
    \/ CallCountJunctionParticipation

SpecPrepare == InitPrepare /\ [][NextPrepare]_vars

\* ========================================================== SpecStages
\* Each stage called on its own with inputs at the edge of its contract:
\* an image row of at most MaxStageW pixels, any list of labels as
\* valid_cells (a label absent from the mask is a cell of zero pixels, the
\* empty list is "no valid cell"), and a boundary map that lacks the entry
\* of any subset of the valid cells. The junction list handed to
\* cluster_vertices and prepare_interactive_data and the rosette list
\* handed to prepare_interactive_data are empty or hold one junction of all
\* valid cells. The result of find_vertices is all_vertices, that of
\* cluster_vertices is merged_vertices.
InitStages ==
    /\ pc = "ready"
    /\ shape \in {<<1, w>> : w \in 1..MaxStageW}
    /\ mask \in [Pixels(shape) -> 0..MaxStageLabel]
    /\ valid_cells \in {SortedSeq(S) : S \in SUBSET (1..MaxStageLabel)}
    /\ cell_properties = DetectCellProperties(mask, shape, valid_cells)
    /\ \E missing \in SUBSET Range(valid_cells) :
          cell_boundaries =
              [c \in Range(valid_cells) \ missing |->
                  Boundary(cell_properties[c].mask, shape)]
    /\ rosette_vertices \in
           IF valid_cells = <<>> THEN {<<>>}
           ELSE {<<>>, <<[location  |-> <<0, 0>>,
                          cells     |-> valid_cells,
                          num_cells |-> Len(valid_cells)]>>}
    /\ rosettes = rosette_vertices
    /\ vertex_radius \in {1, 2}
    /\ min_cells_for_rosette = 2
    /\ min_cells_for_vertex = 2
    /\ candidates = <<>>
    /\ all_vertices = <<>>
    /\ neighbors = <<>>
    /\ cell_neighbors = <<>>
    /\ pid_cell_neighbors = <<>>
    /\ NoLoop
    /\ NoOutputs

stageInputs == <<shape, mask, valid_cells, cell_properties, vertex_radius,
                 min_cells_for_vertex, min_cells_for_rosette,
                 rosette_vertices, rosettes, candidates, pass, loop_list, i,
                 used, nearby, junction_counts, n_points, stride, sampled,
                 appVars>>

CallExtractCellBoundaries ==
    /\ pc = "ready"
    /\ cell_boundaries' =
           extract_cell_boundaries(valid_cells, cell_properties, shape)
    /\ pc' = "extracted"
    /\ UNCHANGED <<stageInputs, all_vertices, merged_vertices, neighbors,
                   cell_neighbors, pid_cell_neighbors, cell_data,
                   rosette_data, cell_to_rosettes, cell_pixels, raised>>

CallFindVertices ==
    /\ pc = "ready"
    /\ raised' = find_vertices_raises(mask, shape, valid_cells, cell_boundaries)
    /\ all_vertices' =
           IF raised' = "none"
           THEN find_vertices(mask, shape, valid_cells, cell_boundaries,
                              vertex_radius, min_cells_for_vertex)
           ELSE all_vertices
    /\ pc' = "found"
    /\ UNCHANGED <<stageInputs, cell_boundaries, merged_vertices, neighbors,
                   cell_neighbors, pid_cell_neighbors, cell_data,
                   rosette_data, cell_to_rosettes, cell_pixels>>

CallCalculateCellNeighbors ==
    /\ pc = "ready"
    /\ raised' = calculate_cell_neighbors_raises(valid_cells, cell_boundaries)
    /\ IF raised' = "none"
       THEN /\ neighbors' = [c \in Range(valid_cells) |->
                                neighbors_of(c, valid_cells, cell_boundaries)]
            /\ cell_neighbors' =
                   calculate_cell_neighbors(valid_cells, cell_boundaries)
       ELSE UNCHANGED <<neighbors, cell_neighbors>>
    /\ pc' = "neighbors"
    /\ UNCHANGED <<stageInputs, cell_boundaries, all_vertices, merged_vertices,
                   pid_cell_neighbors, cell_data, rosette_data,
                   cell_to_rosettes, cell_pixels>>

CallClusterVertices ==
    /\ pc = "ready"
    /\ merged_vertices' = cluster_vertices(rosette_vertices, vertex_radius,
                                           min_cells_for_rosette)
    /\ pc' = "clustered"
    /\ UNCHANGED <<stageInputs, cell_boundaries, all_vertices, neighbors,
                   cell_neighbors, pid_cell_neighbors, cell_data,
                   rosette_data, cell_to_rosettes, cell_pixels, raised>>

CallPrepare ==
    /\ pc = "ready"
    /\ raised' = prepare_interactive_data_raises(valid_cells, cell_properties,
                                                 rosettes)
    /\ IF raised' = "none"
       THEN /\ pid_cell_neighbors' = prepare_cell_neighbors(rosette_vertices)
            /\ cell_to_rosettes' = build_cell_to_rosettes(rosettes)
            /\ cell_pixels' = prepare_cell_pixels(valid_cells, cell_properties,
                                                 rosettes, shape)
            /\ cell_data' = prepare_cell_data(valid_cells, cell_properties,
                                              cell_boundaries, rosette_vertices,
                                              rosettes, shape)
            /\ rosette_data' = prepare_rosette_data(rosettes)
       ELSE UNCHANGED <<pid_cell_neighbors, cell_to_rosettes, cell_pixels, cell_data,
                        rosette_data>>
    /\ pc' = "prepared"
    /\ UNCHANGED <<stageInputs, cell_boundaries, all_vertices, merged_vertices,
                   neighbors, cell_neighbors>>

NextStages ==
    \/ CallExtractCellBoundaries
    \/ CallFindVertices
    \/ CallCalculateCellNeighbors
    \/ CallClusterVertices
    \/ CallPrepare

SpecStages == InitStages /\ [][NextStages]_vars

\* ========================================================== SpecSample
\* lines 37-42 of find_vertices on the number of foreground pixels alone
SampleSizes ==
    {q * SampleTarget + r :
        q \in 0..MaxStride,
        r \in {r \in 0..(SampleTarget - 1) :
                 \/ r <= Margin
                 \/ /\ SampleTarget \div 2 - Margin <= r
                    /\ r <= SampleTarget \div 2 + Margin
                 \/ SampleTarget - 1 - Margin <= r}}

InitSample ==
    /\ pc = "points"
    /\ n_points \in SampleSizes
    /\ stride = 1
    /\ sampled = {}
    /\ shape = <<1, 1>>
    /\ mask = <<>>
    /\ valid_cells = <<>>
    /\ cell_properties = <<>>
    /\ cell_boundaries = <<>>
    /\ vertex_radius = 1
    /\ min_cells_for_rosette = 2
    /\ min_cells_for_vertex = GeneralMinCells
    /\ candidates = <<>>
    /\ all_vertices = <<>>
    /\ rosette_vertices = <<>>
    /\ rosettes = <<>>
    /\ neighbors = <<>>
    /\ cell_neighbors = <<>>
    /\ pid_cell_neighbors = <<>>
    /\ cell_data = <<>>
    /\ rosette_data = <<>>
    /\ cell_to_rosettes = <<>>
    /\ cell_pixels = <<>>
    /\ junction_counts = <<>>
    /\ raised = "none"
    /\ NoLoop
    /\ NoApp

TakeSample ==
    /\ pc = "points"
    /\ stride' = sample_stride(n_points)
    /\ sampled' = slice_positions(n_points, stride')
    /\ pc' = "sampled"
    /\ UNCHANGED <<shape, mask, valid_cells, cell_properties, cell_boundaries,
                   vertex_radius, min_cells_for_vertex, min_cells_for_rosette,
                   candidates, all_vertices, rosette_vertices, rosettes,
                   loopVars, neighbors, cell_neighbors, pid_cell_neighbors,
                   cell_data, rosette_data, cell_to_rosettes, cell_pixels, junction_counts,
                   raised, n_points, appVars>>

NextSample == TakeSample

SpecSample == InitSample /\ [][NextSample]_vars

\* ========================================================== SpecProcess
\* process_single_image (src/app.py 186-262): one action per stage call, in
\* the order of the function; stages_run lists the calls made so far.
InitProcess ==
    /\ pc = "load"
    /\ vertex_radius \in 1..MaxR
    /\ min_cells_for_rosette \in 2..GeneralMinCells
    /\ min_cells_for_vertex = GeneralMinCells
    /\ shape = <<1, 1>>
    /\ mask = <<>>
    /\ valid_cells = <<>>
    /\ cell_properties = <<>>
    /\ cell_boundaries = <<>>
    /\ candidates = <<>>
    /\ all_vertices = <<>>
    /\ rosette_vertices = <<>>
    /\ rosettes = <<>>
    /\ neighbors = <<>>
    /\ cell_neighbors = <<>>
    /\ pid_cell_neighbors = <<>>
    /\ NoLoop
    /\ NoOutputs

\* what no stage of process_single_image writes
processFixed == <<vertex_radius, min_cells_for_rosette, min_cells_for_vertex,
                  candidates, neighbors, cell_neighbors, pid_cell_neighbors,
                  loopVars, cell_data, rosette_data, cell_to_rosettes,
                  cell_pixels, junction_counts, n_points, stride, sampled,
                  output_file, pixelToCellMap, removedRosettes,
                  currentHighlightedRosettes, rosette_count>>

\* 203-207: load_and_validate_images keeps the files that exist; an empty
\* list returns the failure dictionary
LoadImages ==
    /\ pc = "load"
    /\ \E exists \in BOOLEAN :
          imgs' = IF exists THEN <<"image">> ELSE <<>>
    /\ stages_run' = Append(stages_run, "load_and_validate_images")
    /\ IF imgs' = <<>>
       THEN /\ result' = [success |-> FALSE, error |-> "Failed to load image"]
            /\ pc' = "returned"
       ELSE /\ result' = result
            /\ pc' = "detect"
    /\ UNCHANGED <<processFixed, shape, mask, valid_cells, cell_properties,
                   cell_boundaries, rosette_vertices, all_vertices, rosettes,
                   raised>>

\* the segmentation and the size filter, with the check of 214-216 left out
DetectCellsUnchecked ==
    /\ pc = "detect"
    /\ \E w \in 1..MaxStageW :
          /\ shape' = <<1, w>>
          /\ mask' \in [Pixels(shape') -> 0..MaxStageLabel]
    /\ \E min_area \in 1..2 :
          valid_cells' = DetectValidCells(mask', shape', min_area,
                                          shape'[1] * shape'[2])
    /\ cell_properties' = DetectCellProperties(mask', shape', valid_cells')
    /\ stages_run' = Append(stages_run, "detect_cells")
    /\ result' = result
    /\ pc' = "extract"
    /\ UNCHANGED <<processFixed, imgs, cell_boundaries, rosette_vertices,
                   all_vertices, rosettes, raised>>

\* 210-216: detect_cells returns the mask of the segmentation, the valid
\* cells and their properties; no valid cell returns the failure dictionary
DetectCells ==
    /\ pc = "detect"
    /\ \E w \in 1..MaxStageW :
          /\ shape' = <<1, w>>
          /\ mask' \in [Pixels(shape') -> 0..MaxStageLabel]
    /\ \E min_area \in 1..2 :
          valid_cells' = DetectValidCells(mask', shape', min_area,
                                          shape'[1] * shape'[2])
    /\ cell_properties' = DetectCellProperties(mask', shape', valid_cells')
    /\ stages_run' = Append(stages_run, "detect_cells")
    /\ IF Len(valid_cells') = 0
       THEN /\ result' = [success |-> FALSE, error |-> "No valid cells detected"]
            /\ pc' = "returned"
       ELSE /\ result' = result
            /\ pc' = "extract"
    /\ UNCHANGED <<processFixed, imgs, cell_boundaries, rosette_vertices,
                   all_vertices, rosettes, raised>>

\* 219
ProcessExtractCellBoundaries ==
    /\ pc = "extract"
    /\ cell_boundaries' =
           extract_cell_boundaries(valid_cells, cell_properties, shape)
    /\ stages_run' = Append(stages_run, "extract_cell_boundaries")
    /\ pc' = "vertices"
    /\ UNCHANGED <<processFixed, imgs, shape, mask, valid_cells,
                   cell_properties, rosette_vertices, all_vertices, rosettes,
                   raised, result>>

\* 222-224: vertices = find_vertices(..., config['min_rosette_cells'])
ProcessFindVertices ==
    /\ pc = "vertices"
    /\ rosette_vertices' =
           find_vertices(mask, shape, valid_cells, cell_boundaries,
                         vertex_radius, min_cells_for_rosette)
    /\ stages_run' = Append(stages_run, "find_vertices")
    /\ pc' = "count_vertices"
    /\ UNCHANGED <<processFixed, imgs, shape, mask, valid_cells,
                   cell_properties, cell_boundaries, all_vertices, rosettes,
                   raised, result>>

\* 226-228: count_vertices = find_vertices(..., 3)
ProcessFindCountVertices ==
    /\ pc = "count_vertices"
    /\ all_vertices' = find_vertices(mask, shape, valid_cells, cell_boundaries,
                                     vertex_radius, GeneralMinCells)
    /\ stages_run' = Append(stages_run, "find_vertices")
    /\ pc' = "cluster_vertices"
    /\ UNCHANGED <<processFixed, imgs, shape, mask, valid_cells,
                   cell_properties, cell_boundaries, rosette_vertices,
                   rosettes, raised, result>>

\* 231
ProcessClusterVertices ==
    /\ pc = "cluster_vertices"
    /\ rosettes' = cluster_vertices(rosette_vertices, vertex_radius,
                                    min_cells_for_rosette)
    /\ stages_run' = Append(stages_run, "cluster_vertices")
    /\ pc' = "visualization"
    /\ UNCHANGED <<processFixed, imgs, shape, mask, valid_cells,
                   cell_properties, cell_boundaries, rosette_vertices,
                   all_vertices, raised, result>>

\* 238: create_base_visualization renders the image and returns its PNG
ProcessCreateBaseVisualization ==
    /\ pc = "visualization"
    /\ stages_run' = Append(stages_run, "create_base_visualization")
    /\ pc' = "prepare"
    /\ UNCHANGED <<processFixed, imgs, shape, mask, valid_cells,
                   cell_properties, cell_boundaries, rosette_vertices,
                   all_vertices, rosettes, raised, result>>

\* 241-243: the call passes six positional arguments to
\* prepare_interactive_data, which takes five (rosette_detection.py 259):
\* Python raises TypeError before the function body runs, and
\* process_single_image, which catches nothing, ends with it; 246-262 (the
\* page, the write of output_file, the success dictionary) are not reached
ProcessPrepareInteractiveData ==
    /\ pc = "prepare"
    /\ stages_run' = Append(stages_run, "prepare_interactive_data")
    /\ raised' = "TypeError"
    /\ pc' = "raised"
    /\ UNCHANGED <<processFixed, imgs, shape, mask, valid_cells,
                   cell_properties, cell_boundaries, rosette_vertices,
                   all_vertices, rosettes, result>>

NextProcess ==
    \/ LoadImages
    \/ DetectCells
    \/ ProcessExtractCellBoundaries
    \/ ProcessFindVertices
    \/ ProcessFindCountVertices
    \/ ProcessClusterVertices
    \/ ProcessCreateBaseVisualization
    \/ ProcessPrepareInteractiveData

SpecProcess == InitProcess /\ [][NextProcess]_vars

\* =========================================================== SpecViewer
\* The script of the page generate_html_visualization returns
\* (rosette_detection.py 591-818), from the state in which baseImg.onload
\* has built pixelToCellMap; one action per event handler. Rosette indices
\* are those of JavaScript, from 0.

\* 651: const radius = 6, the red dot of an active rosette
DotRadius == 6

\* 804: distance <= 10, the leeway of the click test
HitRadius == 10

\* 613-618: key `${x},${y}` -> cellId over the entries of cellPixels, whose
\* integer keys JavaScript enumerates in ascending order; a later entry
\* overwrites an earlier one
build_pixel_to_cell_map(pixels) ==
    LET keys(c) == {<<pixels[c][k][2], pixels[c][k][1]>> :
                       k \in 1..Len(pixels[c])}
    IN  [key \in UNION {keys(c) : c \in DOMAIN pixels} |->
            CHOOSE c \in DOMAIN pixels :
                /\ key \in keys(c)
                /\ \A d \in DOMAIN pixels : key \in keys(d) => d <= c]

\* pixelToCellMap.get(key); 0 stands for undefined (both are falsy)
cell_at(map, x, y) == IF <<x, y>> \in DOMAIN map THEN map[<<x, y>>] ELSE 0

\* 715-718: cellToRosettes[cellId] || [], filtered by !removedRosettes.has
active_rosette_indices(c2r, cellId, removed) ==
    {idx \in (IF cellId \in DOMAIN c2r THEN Range(c2r[cellId]) ELSE {}) :
        idx \notin removed}

\* the rosette of the cell listed first, removed or not
first_listed(rosetteIndices, removed) ==
    IF \E k \in 1..Len(rosetteIndices) : rosetteIndices[k] \in removed
    THEN rosetteIndices[1]
    ELSE -1

\* 779-781: the first rosetteIdx of the list that removedRosettes has, or -1
first_removed(rosetteIndices, removed) ==
    IF \E k \in 1..Len(rosetteIndices) : rosetteIndices[k] \in removed
    THEN rosetteIndices[SetMin({k \in 1..Len(rosetteIndices) :
                                   rosetteIndices[k] \in removed})]
    ELSE -1

\* 771-781: the rosette a click at (x, y) restores, or -1
restore_target(map, c2r, removed, x, y) ==
    LET cellId == cell_at(map, x, y)
    IN  IF cellId # 0 /\ cellId \in DOMAIN c2r
        THEN first_removed(c2r[cellId], removed)
        ELSE -1

\* 797-804: the first i with !removedRosettes.has(i) and distance <= 10 from
\* rosettes[i].center = [cx, cy], or -1
remove_target(rosette_list, removed, x, y) ==
    LET hits == {n \in 0..(Len(rosette_list) - 1) :
                    /\ n \notin removed
                    /\ Dist2(<<x, y>>, rosette_list[n + 1].center)
                           <= HitRadius * HitRadius}
    IN  IF hits = {} THEN -1 ELSE SetMin(hits)

\* removedRosettes after the click handler has run for (x, y)
removed_after_click(map, c2r, rosette_list, removed, x, y) ==
    IF restore_target(map, c2r, removed, x, y) # -1
    THEN removed \ {restore_target(map, c2r, removed, x, y)}
    ELSE IF remove_target(rosette_list, removed, x, y) # -1
         THEN removed \cup {remove_target(rosette_list, removed, x, y)}
         ELSE removed

highlighted_kept(highlighted, n) == highlighted

\* 806: currentHighlightedRosettes.delete(i)
highlighted_after_remove(highlighted, n) == highlighted \ {n}

numRemainingOfAll(rosette_list, removed) == Len(rosette_list)

\* 786, 810: rosettes.length - removedRosettes.size
numRemaining(rosette_list, removed) ==
    Len(rosette_list) - Cardinality(removed)

\* the pages: three cells side by side on a one-row canvas, and up to
\* MaxViewRosettes rosettes with different centres 8, 14 or 20 pixels from
\* the left, each of cells 1 and 2, of cells 2 and 3 or of all three
ViewRosettes ==
    {[location |-> <<x, 0>>, cells |-> cl, num_cells |-> Len(cl)] :
        x \in {8, 14, 20}, cl \in {<<1, 2>>, <<2, 3>>, <<1, 2, 3>>}}

InitViewer ==
    /\ pc = "viewing"
    /\ shape = <<1, ViewW>>
    /\ mask = [px \in Pixels(shape) |->
                  IF px[2] \div (ViewW \div 3) < 3
                  THEN px[2] \div (ViewW \div 3) + 1 ELSE 0]
    /\ valid_cells = <<1, 2, 3>>
    /\ cell_properties = DetectCellProperties(mask, shape, valid_cells)
    /\ cell_boundaries =
           extract_cell_boundaries(valid_cells, cell_properties, shape)
    /\ rosettes \in {l \in ListsOver(ViewRosettes, MaxViewRosettes) :
                       \A a \in DOMAIN l : \A b \in DOMAIN l :
                           a # b => l[a].location # l[b].location}
    /\ all_vertices = <<>>
    /\ rosette_vertices = <<>>
    /\ pid_cell_neighbors = prepare_cell_neighbors(all_vertices)
    /\ cell_to_rosettes = build_cell_to_rosettes(rosettes)
    /\ cell_pixels = prepare_cell_pixels(valid_cells, cell_properties,
                                         rosettes, shape)
    /\ cell_data = prepare_cell_data(valid_cells, cell_properties,
                                     cell_boundaries, all_vertices, rosettes,
                                     shape)
    /\ rosette_data = prepare_rosette_data(rosettes)
    /\ pixelToCellMap = build_pixel_to_cell_map(cell_pixels)
    /\ removedRosettes = {}
    /\ currentHighlightedRosettes = {}
    /\ rosette_count = Len(rosettes)
    /\ vertex_radius = 1
    /\ min_cells_for_rosette = 2
    /\ min_cells_for_vertex = 2
    /\ candidates = <<>>
    /\ neighbors = <<>>
    /\ cell_neighbors = <<>>
    /\ junction_counts = <<>>
    /\ raised = "none"
    /\ n_points = 0
    /\ stride = 1
    /\ sampled = {}
    /\ imgs = <<>>
    /\ stages_run = <<>>
    /\ result = <<>>
    /\ output_file = "absent"
    /\ NoLoop

\* the data the page embeds and the map built from it
pageData == <<pc, shape, mask, valid_cells, cell_properties, cell_boundaries,
              vertex_radius, min_cells_for_vertex, min_cells_for_rosette,
              candidates, all_vertices, rosette_vertices, rosettes, loopVars,
              neighbors, cell_neighbors, pid_cell_neighbors, cell_data,
              rosette_data, cell_to_rosettes, cell_pixels, junction_counts,
              raised, n_points, stride, sampled, imgs, stages_run, result,
              output_file, pixelToCellMap>>

\* the positions Math.floor(e.clientX - rect.left), Math.floor(e.clientY -
\* rect.top) of an event on the canvas
CanvasPoints == {<<x, y>> \in (0..(shape[2] - 1)) \X (0..(shape[1] - 1)) : TRUE}

\* 705-755: the mousemove handler
MouseMove(x, y) ==
    /\ pc = "viewing"
    /\ LET cellId == cell_at(pixelToCellMap, x, y)
       IN  currentHighlightedRosettes' =
               IF cellId # 0 /\ cellId \in DOMAIN cell_data
               THEN active_rosette_indices(cell_to_rosettes, cellId,
                                           removedRosettes)
               ELSE {}
    /\ UNCHANGED <<pageData, removedRosettes, rosette_count>>

\* 758-763: the mouseleave handler
MouseLeave ==
    /\ pc = "viewing"
    /\ currentHighlightedRosettes' = {}
    /\ UNCHANGED <<pageData, removedRosettes, rosette_count>>

\* 766-818: the click handler
Click(x, y) ==
    /\ pc = "viewing"
    /\ removedRosettes' =
           removed_after_click(pixelToCellMap, cell_to_rosettes, rosette_data,
                               removedRosettes, x, y)
    /\ IF restore_target(pixelToCellMap, cell_to_rosettes, removedRosettes,
                         x, y) # -1
       THEN /\ currentHighlightedRosettes' = currentHighlightedRosettes
            /\ rosette_count' = numRemaining(rosette_data, removedRosettes')
       ELSE IF remove_target(rosette_data, removedRosettes, x, y) # -1
            THEN /\ currentHighlightedRosettes' =
                        highlighted_after_remove(
                            currentHighlightedRosettes,
                            remove_target(rosette_data, removedRosettes, x, y))
                 /\ rosette_count' = numRemaining(rosette_data,
                                                  removedRosettes')
            ELSE UNCHANGED <<currentHighlightedRosettes, rosette_count>>
    /\ UNCHANGED pageData

NextViewer ==
    \/ \E pt \in CanvasPoints : MouseMove(pt[1], pt[2])
    \/ MouseLeave
    \/ \E pt \in CanvasPoints : Click(pt[1], pt[2])

SpecViewer == InitViewer /\ [][NextViewer]_vars

\* ============================================================== claims
\* a list of junctions as the set of its (location, cell set) pairs
JSet(list) == {<<v.location, Range(v.cells)>> : v \in Range(list)}

Qualifying(list, m) == {k \in 1..Len(list) : list[k].num_cells >= m}

\* ---- C1
\* C1: every junction emitted by the merging loop, and so every junction
\* returned by find_vertices and every rosette returned by
\* cluster_vertices, has num_cells equal to the number of distinct labels
\* of its cells list, and the list holds no label twice.
C1_NumCellsIsLiveCount ==
    \A v \in Range(merged_vertices) \cup Range(all_vertices)
                 \cup Range(rosettes) :
        /\ v.num_cells = Cardinality(Range(v.cells))
        /\ Len(v.cells) = Cardinality(Range(v.cells))

\* a merge of several candidates whose cell lists overlap has been returned
C1_Witness ==
    /\ pc = "done"
    /\ Len(PassOutput) >= 1
    /\ \E k \in 1..Len(nearby) :
          /\ Cardinality(nearby[k]) >= 2
          /\ merged_vertices[k].num_cells
                 < SumSet([j \in nearby[k] |-> loop_list[j].num_cells],
                          nearby[k])

\* ---- C5
\* C5: a seed absorbs only candidates that no earlier seed absorbed, so the
\* absorbed groups (the nearby_indices of the emitted junctions) are
\* pairwise disjoint.
C5_GroupsDisjoint ==
    \A j \in 1..Len(nearby) : \A k \in 1..Len(nearby) :
        j # k => nearby[j] \cap nearby[k] = {}

\* ---- C6
\* C6: every cell label of a rosette returned by cluster_vertices is in the
\* cell list of an input junction with num_cells >= min_cells_for_rosette.
C6_RosetteCellsQualify ==
    (pc = "done" /\ pass = "rosette") =>
        \A r \in Range(rosettes) : \A c \in Range(r.cells) :
            \E v \in Range(rosette_vertices) :
                /\ v.num_cells >= min_cells_for_rosette
                /\ c \in Range(v.cells)

\* a rosette was returned while some input cell occurs only in junctions
\* below the threshold
C6_Witness ==
    /\ pc = "done"
    /\ pass = "rosette"
    /\ Len(rosettes) >= 1
    /\ \E v \in Range(rosette_vertices) : \E c \in Range(v.cells) :
          /\ v.num_cells < min_cells_for_rosette
          /\ \A r \in Range(rosettes) : c \notin Range(r.cells)

\* ---- C7
\* C7: when exactly two input junctions qualify and their distance is at
\* most 1.5 * vertex_radius, cluster_vertices returns exactly one rosette:
\* its cells are the union of the two cell lists, num_cells is the size of
\* the union, and the location is the mean of the two locations truncated
\* to integers in each coordinate.
C7_TwoJunctionsMerge ==
    (pc = "done" /\ pass = "rosette") =>
        \A a \in 1..Len(rosette_vertices) : \A b \in 1..Len(rosette_vertices) :
            LET va == rosette_vertices[a]
                vb == rosette_vertices[b]
            IN  (/\ a < b
                 /\ Qualifying(rosette_vertices, min_cells_for_rosette) = {a, b}
                 /\ 4 * Dist2(va.location, vb.location)
                        <= 9 * vertex_radius * vertex_radius)
                => /\ Len(rosettes) = 1
                   /\ Range(rosettes[1].cells)
                          = Range(va.cells) \cup Range(vb.cells)
                   /\ rosettes[1].num_cells
                          = Cardinality(Range(va.cells) \cup Range(vb.cells))
                   /\ rosettes[1].location
                          = <<(va.location[1] + vb.location[1]) \div 2,
                              (va.location[2] + vb.location[2]) \div 2>>

\* two qualifying junctions farther apart than vertex_radius but within
\* 1.5 * vertex_radius, with an odd coordinate sum, were merged
C7_Witness ==
    /\ pc = "done"
    /\ pass = "rosette"
    /\ Len(rosettes) = 1
    /\ \E a \in 1..Len(rosette_vertices) : \E b \in 1..Len(rosette_vertices) :
          LET va == rosette_vertices[a]
              vb == rosette_vertices[b]
          IN  /\ a < b
              /\ Qualifying(rosette_vertices, min_cells_for_rosette) = {a, b}
              /\ Dist2(va.location, vb.location)
                     > vertex_radius * vertex_radius
              /\ 4 * Dist2(va.location, vb.location)
                     <= 9 * vertex_radius * vertex_radius
              /\ (va.location[1] + vb.location[1]) % 2 = 1
              /\ Range(va.cells) # Range(vb.cells)

\* ---- C3
\* no two junctions of the list are within the merge distance of the pass
\* (1.0 * vertex_radius in find_vertices, 1.5 * vertex_radius in
\* cluster_vertices)
PairwiseApart(list) ==
    \A j \in 1..Len(list) : \A k \in 1..Len(list) :
        j # k =>
            IF pass = "vertex"
            THEN Dist2(list[j].location, list[k].location)
                     > vertex_radius * vertex_radius
            ELSE 4 * Dist2(list[j].location, list[k].location)
                     > 9 * vertex_radius * vertex_radius

\* C3 as stated: running the pass again on its own output returns the same
\* set of (location, cell set) junctions, for every input list.
C3_Idempotent ==
    pc = "done" => JSet(RunPass(PassOutput)) = JSet(PassOutput)

\* C3: when no two junctions of the output are within the merge distance
\* of each other, running the pass again on the output returns the same
\* set of (location, cell set) junctions.
C3_IdempotentWhenApart ==
    (pc = "done" /\ PairwiseApart(PassOutput)) =>
        JSet(RunPass(PassOutput)) = JSet(PassOutput)

\* a pass that merged candidates returned several junctions, pairwise
\* farther apart than the merge distance
C3_Witness ==
    /\ pc = "done"
    /\ Len(PassOutput) >= 2
    /\ PairwiseApart(PassOutput)
    /\ \E k \in 1..Len(nearby) : Cardinality(nearby[k]) >= 2

\* ---- C4
Perms(n) == {f \in [1..n -> 1..n] : \A a \in 1..n : \E b \in 1..n : f[b] = a}

\* the exchanges of two adjacent positions; they generate every permutation
AdjacentSwaps(n) ==
    {[k \in 1..n |-> IF k = a THEN a + 1 ELSE IF k = a + 1 THEN a ELSE k] :
        a \in 1..(n - 1)}

\* The reorderings tried on one input. The inputs of the rosette pass are
\* closed under permutation and so is the premise of C4, so that trying the
\* adjacent exchanges on every input tries every permutation of every
\* input; the inputs of the vertex pass are in row-major order only, and
\* every permutation is tried on each.
Reorders(n) == IF pass = "vertex" THEN Perms(n) ELSE AdjacentSwaps(n)

Permute(list, f) == [k \in 1..Len(list) |-> list[f[k]]]

\* "within merge distance" is transitive on the list the loop enumerates
NearTransitive(list) ==
    LET near(a, b) == WithinMerge(Dist2(list[a].location, list[b].location),
                                  vertex_radius, pass)
    IN  \A a \in 1..Len(list) : \A b \in 1..Len(list) :
            near(a, b) => \A c \in 1..Len(list) :
                              near(b, c) => near(a, c)

\* C4 as stated: every permutation of the input list yields the same set
\* of (location, cell set) junctions.
C4_OrderIndependent ==
    pc = "done" =>
        \A f \in Reorders(Len(PassInput)) :
            JSet(RunPass(Permute(PassInput, f))) = JSet(PassOutput)

\* C4: when "within merge distance" is transitive on the candidates that
\* enter the loop (any two candidates within merge distance of a third are
\* within merge distance of each other), every permutation of the input
\* list yields the same set of (location, cell set) junctions.
C4_OrderIndependentWhenTransitive ==
    (pc = "done" /\ NearTransitive(loop_list)) =>
        \A f \in Reorders(Len(PassInput)) :
            JSet(RunPass(Permute(PassInput, f))) = JSet(PassOutput)

\* a transitive input of three candidates at different locations, two of
\* which were merged and one kept apart
C4_Witness ==
    /\ pc = "done"
    /\ Len(loop_list) = 3
    /\ NearTransitive(loop_list)
    /\ Len(PassOutput) = 2
    /\ \E k \in 1..Len(nearby) :
          /\ Cardinality(nearby[k]) = 2
          /\ \E a \in nearby[k] : \E b \in nearby[k] :
                loop_list[a].location # loop_list[b].location

\* ---- C2
\* the valid cells whose boundary comes within r of the point, r*r = r2q/4
CellsWithin4(point, r2q) ==
    {c \in Range(valid_cells) :
        \E b \in cell_boundaries[c] : 4 * Dist2(b, point) <= r2q}

RawAt(point) ==
    {k \in 1..Len(candidates) :
        candidates[k].location = <<point[2], point[1]>>}

\* C2: after a find_vertices call with threshold K = min_cells_for_vertex,
\* a sampled point has a raw candidate iff at least K valid cells have a
\* boundary pixel within vertex_radius of it and at least 2 valid cells
\* have one within 0.5 * vertex_radius; an accepted point has exactly one
\* candidate, whose cells are exactly the cells within vertex_radius and
\* whose num_cells is their number; no other candidates exist.
C2_RawCandidates ==
    pc \in {"find_rosette", "cluster"} =>
        LET points == Range(SamplePoints(mask, shape))
            R2q    == 4 * vertex_radius * vertex_radius
            near(p)   == CellsWithin4(p, R2q)
            vclose(p) == CellsWithin4(p, vertex_radius * vertex_radius)
            ok(p) == /\ Cardinality(near(p)) >= min_cells_for_vertex
                     /\ Cardinality(vclose(p)) >= 2
        IN  /\ \A p \in points : ok(p) <=> RawAt(p) # {}
            /\ \A p \in points :
                  ok(p) =>
                      /\ Cardinality(RawAt(p)) = 1
                      /\ \A k \in RawAt(p) :
                            /\ Range(candidates[k].cells) = near(p)
                            /\ Len(candidates[k].cells) = Cardinality(near(p))
                            /\ candidates[k].num_cells = Cardinality(near(p))
            /\ Len(candidates) = Cardinality({p \in points : ok(p)})

\* a call that accepted one point and rejected another that has K cells
\* within vertex_radius but fewer than 2 within half of it
C2_Witness ==
    /\ pc \in {"find_rosette", "cluster"}
    /\ Len(candidates) >= 1
    /\ \E p \in Range(SamplePoints(mask, shape)) :
          /\ RawAt(p) = {}
          /\ Cardinality(CellsWithin4(p, 4 * vertex_radius * vertex_radius))
                 >= min_cells_for_vertex

\* ---- C8
\* least squared distance between the boundaries of two cells
BoundaryGap2(a, b) ==
    SetMin({Dist2(p, q) : p \in cell_boundaries[a], q \in cell_boundaries[b]})

\* some pixel of a has a 4-connected neighbor in b
SharesEdge(a, b) ==
    \E p \in cell_properties[a].mask : \E q \in cell_properties[b].mask :
        Dist2(p, q) = 1

\* C8 as stated: two cells whose boundaries are more than 1 pixel apart
\* everywhere (no boundary pixel of one in the 8-neighborhood of a boundary
\* pixel of the other) are never reported adjacent, and two cells sharing
\* a boundary edge always are.
C8_AdjacentWithinOnePixel ==
    pc \in {"prepare", "done"} =>
        \A a \in Range(valid_cells) : \A b \in Range(valid_cells) :
            a # b =>
                /\ b \in neighbors[a] => BoundaryGap2(a, b) <= 2
                /\ SharesEdge(a, b) => b \in neighbors[a]

\* C8: two cells whose boundaries are more than 2 pixels apart everywhere
\* are never reported adjacent, and two cells sharing a boundary edge
\* always are.
C8_AdjacentWithinTwoPixels ==
    pc \in {"prepare", "done"} =>
        \A a \in Range(valid_cells) : \A b \in Range(valid_cells) :
            a # b =>
                /\ b \in neighbors[a] => BoundaryGap2(a, b) <= 4
                /\ SharesEdge(a, b) => b \in neighbors[a]

\* three cells: two share an edge and are reported, two are more than 2
\* pixels apart and are not reported
C8_Witness ==
    /\ pc \in {"prepare", "done"}
    /\ \E a \in Range(valid_cells) : \E b \in Range(valid_cells) :
          a # b /\ SharesEdge(a, b) /\ b \in neighbors[a]
    /\ \E a \in Range(valid_cells) : \E b \in Range(valid_cells) :
          a # b /\ BoundaryGap2(a, b) > 4 /\ b \notin neighbors[a]

\* ---- C9
\* C9: both neighbor relations are symmetric: b is in the neighbor set
\* calculate_cell_neighbors builds for a iff a is in the one it builds for
\* b, and b is in prepare_interactive_data's co-junction set of a iff a is
\* in that of b.
C9_NeighborsSymmetric ==
    pc = "done" =>
        /\ \A a \in Range(valid_cells) : \A b \in Range(valid_cells) :
              b \in neighbors[a] <=> a \in neighbors[b]
        /\ \A a \in 1..MaxLabel : \A b \in 1..MaxLabel :
              (a \in DOMAIN pid_cell_neighbors /\ b \in pid_cell_neighbors[a])
              <=> (b \in DOMAIN pid_cell_neighbors
                   /\ a \in pid_cell_neighbors[b])

\* both relations are non-empty and the boundary relation is not complete
C9_Witness ==
    /\ pc = "done"
    /\ \E a \in Range(valid_cells) : \E b \in Range(valid_cells) :
          a # b /\ b \in neighbors[a]
    /\ \E a \in Range(valid_cells) : \E b \in Range(valid_cells) :
          a # b /\ b \notin neighbors[a]
    /\ DOMAIN pid_cell_neighbors # {}

\* ---- C10
\* C10: for every cell, the boundary pixels extract_cell_boundaries
\* returns are pixels of the cell's mask, and there are none iff the mask
\* has no pixel.
C10_BoundaryInMask ==
    pc = "find_all" =>
        \A c \in Range(valid_cells) :
            /\ cell_boundaries[c] \subseteq cell_properties[c].mask
            /\ cell_boundaries[c] = {} <=> cell_properties[c].mask = {}

\* a mask that fills the whole image and has interior pixels
C10_Witness ==
    /\ pc = "find_all"
    /\ cell_properties[1].mask = Pixels(shape)
    /\ cell_boundaries[1] # {}
    /\ cell_boundaries[1] # cell_properties[1].mask

\* ---- C11
\* C11: when prepare_interactive_data has returned, every valid cell has a
\* metrics record, and the in_rosette flag of the record is true exactly
\* when the cell is in the cell list of at least one rosette.
C11_EveryValidCellHasRecord ==
    pc = "done" =>
        \A c \in Range(valid_cells) :
            /\ c \in DOMAIN cell_data
            /\ cell_data[c].in_rosette
                   <=> (\E k \in 1..Len(rosettes) : c \in Range(rosettes[k].cells))

\* ---- C12
\* C12: for every cell with a metrics record, num_neighbors of the record
\* equals the count calculate_cell_neighbors gives for the cell.
C12_NeighborCountIsAdjacency ==
    pc = "done" =>
        \A c \in DOMAIN cell_data :
            cell_data[c].num_neighbors = cell_neighbors[c]

\* ---- C13
\* the junctions of a list that list the cell and have a cardinality in
\* the range lo..hi
JunctionsOf(list, c, lo, hi) ==
    {k \in 1..Len(list) : /\ c \in Range(list[k].cells)
                          /\ lo <= list[k].num_cells
                          /\ list[k].num_cells <= hi}

\* C13: for every cell, in the record of prepare_interactive_data and in
\* the counts of count_junction_participation, the buckets 3, 4, 5, 6, 7
\* count the junctions of exactly that cardinality the cell is in, the 8+
\* bucket counts the junctions of cardinality 8 or more and nothing else,
\* and total_junctions is the sum of the six buckets.
C13_HistogramBuckets ==
    pc = "counted" =>
        /\ \A c \in DOMAIN cell_data :
              LET jc == cell_data[c].junction_counts
              IN  /\ \A n \in 3..7 :
                        jc[bucket_of(n)]
                            = Cardinality(JunctionsOf(all_vertices, c, n, n))
                  /\ jc["8+ cell"]
                         = Cardinality(JunctionsOf(all_vertices, c, 8, MaxCard + 1))
                  /\ cell_data[c].total_junctions
                         = SumSet(jc, Buckets)
        /\ \A c \in DOMAIN junction_counts :
              LET jc == junction_counts[c]
              IN  /\ \A n \in 3..7 :
                        jc[category_of(n)]
                            = Cardinality(JunctionsOf(all_vertices, c, n, n))
                  /\ jc["junctions_8plus_cell"]
                         = Cardinality(JunctionsOf(all_vertices, c, 8, MaxCard + 1))
                  /\ jc["total_junctions"] = SumSet(jc, Columns)

\* ---- C14
\* the rosette indices listed for a cell, none when the cell has no key
IndicesOf(c) ==
    IF c \in DOMAIN cell_to_rosettes THEN cell_to_rosettes[c] ELSE <<>>

\* C14: when prepare_interactive_data has returned, rosette_data has one
\* record per rosette, in the order of the rosettes; the record at
\* zero-based position i has id i and the cells, location and num_cells of
\* rosette i; and cell_to_rosettes lists index i for cell c exactly when c
\* is in the cells of rosette i, and lists it at most once.
C14_RosetteIndexIsJoinKey ==
    pc \in {"prepared", "counted"} =>
        /\ Len(rosette_data) = Len(rosettes)
        /\ \A k \in 1..Len(rosettes) :
              /\ rosette_data[k].id = k - 1
              /\ rosette_data[k].cells = rosettes[k].cells
              /\ rosette_data[k].center = rosettes[k].location
              /\ rosette_data[k].num_cells = rosettes[k].num_cells
        /\ \A c \in Range(valid_cells) : \A k \in 1..Len(rosettes) :
              /\ (Occurrences(IndicesOf(c), k - 1) >= 1)
                     <=> c \in Range(rosettes[k].cells)
              /\ Occurrences(IndicesOf(c), k - 1) <= 1
        /\ \A c \in DOMAIN cell_to_rosettes :
              Range(cell_to_rosettes[c]) \subseteq 0..(Len(rosettes) - 1)

\* two different rosettes share a cell, which is listed under both indices
C14_Witness ==
    /\ pc = "prepared"
    /\ Len(rosettes) = 2
    /\ rosettes[1] # rosettes[2]
    /\ \E c \in DOMAIN cell_to_rosettes : cell_to_rosettes[c] = <<0, 1>>
    /\ \E c \in DOMAIN cell_to_rosettes : cell_to_rosettes[c] = <<1>>

\* ---- C15
\* some cell of valid_cells has no entry in the boundary map
MissingBoundary == \E c \in Range(valid_cells) : c \notin DOMAIN cell_boundaries

\* C15 as stated: with a valid cell that has no boundary entry, each of
\* find_vertices, calculate_cell_neighbors and prepare_interactive_data
\* ends by raising and returns nothing.
C15_MissingBoundaryRaises ==
    (MissingBoundary /\ pc \in {"found", "neighbors", "prepared"}) =>
        /\ raised # "none"
        /\ all_vertices = <<>>
        /\ DOMAIN cell_neighbors = {}
        /\ DOMAIN cell_data = {}

\* C15: with a valid cell that has no boundary entry,
\* calculate_cell_neighbors raises and returns nothing; find_vertices
\* raises and returns nothing exactly when the mask has a foreground pixel
\* (a sample point), and returns the empty list otherwise;
\* prepare_interactive_data does not raise, and the record of a rosette
\* cell without an entry has the number of boundary pixels of the cell's
\* mask as its perimeter.
C15_MissingBoundaryRaisesOrFallsBack ==
    MissingBoundary =>
        /\ pc = "neighbors" =>
              (raised # "none" /\ DOMAIN cell_neighbors = {})
        /\ pc = "found" =>
              /\ all_vertices = <<>>
              /\ raised # "none" <=> (\E p \in Pixels(shape) : mask[p] > 0)
        /\ pc = "prepared" =>
              /\ raised = "none"
              /\ DOMAIN cell_data
                     = Range(valid_cells) \cap CellsOf(rosettes)
              /\ \A c \in DOMAIN cell_data :
                    c \notin DOMAIN cell_boundaries =>
                        cell_data[c].perimeter
                            = Cardinality(Boundary(cell_properties[c].mask, shape))

\* prepare_interactive_data has returned the record of a rosette cell that
\* has pixels and no boundary entry
C15_Witness ==
    /\ pc = "prepared"
    /\ \E c \in DOMAIN cell_data :
          /\ c \notin DOMAIN cell_boundaries
          /\ cell_properties[c].mask # {}

\* ---- C16
\* the valid cells whose mask has no pixel and whose boundary entry is the
\* empty set
Degenerate ==
    {c \in Range(valid_cells) :
        /\ cell_properties[c].mask = {}
        /\ c \in DOMAIN cell_boundaries
        /\ cell_boundaries[c] = {}}

\* C16: with a valid cell of zero pixels and every boundary entry present,
\* no stage raises; calculate_cell_neighbors counts the cell in no
\* neighbor set and gives it the count 0, no junction of find_vertices
\* lists it, and its perimeter in prepare_interactive_data is 0.
C16_DegenerateCellHandled ==
    (Degenerate # {} /\ ~MissingBoundary) =>
        /\ raised = "none"
        /\ pc = "neighbors" =>
              \A d \in Degenerate :
                  /\ cell_neighbors[d] = 0
                  /\ \A c \in Range(valid_cells) : d \notin neighbors[c]
        /\ pc = "found" =>
              \A d \in Degenerate : d \notin CellsOf(all_vertices)
        /\ pc = "prepared" =>
              \A d \in Degenerate \cap DOMAIN cell_data :
                  cell_data[d].perimeter = 0

\* ---- C17
\* C17: with no valid cell (the mask all background or holding only labels
\* that are not valid), no stage raises and each returns an empty result:
\* extract_cell_boundaries an empty map, find_vertices an empty list,
\* calculate_cell_neighbors an empty map, cluster_vertices an empty list,
\* prepare_interactive_data empty cell_data, rosette_data and
\* cell_to_rosettes.
C17_EmptyInputEmptyResult ==
    valid_cells = <<>> =>
        /\ raised = "none"
        /\ pc = "extracted" => DOMAIN cell_boundaries = {}
        /\ pc = "found" => all_vertices = <<>>
        /\ pc = "neighbors" => DOMAIN cell_neighbors = {}
        /\ pc = "clustered" => merged_vertices = <<>>
        /\ pc = "prepared" =>
              /\ DOMAIN cell_data = {}
              /\ rosette_data = <<>>
              /\ DOMAIN cell_to_rosettes = {}

\* prepare_interactive_data has returned on no valid cell and a mask with
\* a foreground pixel
C17_Witness ==
    /\ valid_cells = <<>>
    /\ pc = "prepared"
    /\ \E p \in Pixels(shape) : mask[p] > 0

\* ---- C18
\* C18: when no input junction has num_cells >= min_cells_for_rosette,
\* cluster_vertices returns the empty list without entering the merging
\* loop, for the empty input list and for a list of junctions all below
\* the threshold.
C18_NoQualifyingJunctionNoRosette ==
    (/\ pc = "done"
     /\ pass = "rosette"
     /\ Qualifying(rosette_vertices, min_cells_for_rosette) = {}) =>
        /\ rosettes = <<>>
        /\ loop_list = <<>>
        /\ merged_vertices = <<>>
        /\ used = {}

\* cluster_vertices has returned on several junctions, all below the
\* threshold
C18_Witness ==
    /\ pc = "done"
    /\ pass = "rosette"
    /\ Len(rosette_vertices) >= 2
    /\ Qualifying(rosette_vertices, min_cells_for_rosette) = {}
    /\ rosettes = <<>>

\* ---- C19
\* C19: no stage changes its inputs: the two find_vertices calls leave
\* valid_cells, cell_boundaries and mask as they were, cluster_vertices
\* leaves the junction list it is given as it was (every junction's
\* location, cells and num_cells), and prepare_interactive_data leaves the
\* junction list, the rosette list, valid_cells, cell_properties and
\* cell_boundaries as they were.
C19_StagesLeaveInputs ==
    [][/\ pc \in {"find_all", "find_rosette"} =>
              UNCHANGED <<valid_cells, cell_boundaries, mask>>
       /\ pc = "cluster" => UNCHANGED rosette_vertices
       /\ pc = "prepare" =>
              UNCHANGED <<all_vertices, rosettes, valid_cells,
                          cell_properties, cell_boundaries>>]_vars

\* the pipeline has run to its end on an image with a general junction
\* and a rosette, whose cells have records
C19_Witness ==
    /\ pc = "done"
    /\ Len(all_vertices) >= 1
    /\ Len(rosettes) >= 1
    /\ DOMAIN cell_data # {}

\* ---- C20
\* C20: the sample of n foreground pixels holds the positions 0, s, 2s,
\* ... below n with s = max(1, n div 10000); its size is ceil(n / s), is n
\* when n < 20000, and is below 20000 for every n.
C20_SampleBounded ==
    pc = "sampled" =>
        LET n    == n_points
            size == Cardinality(sampled)
        IN  /\ stride >= 1
            /\ stride = (IF n < SampleTarget THEN 1 ELSE n \div SampleTarget)
            /\ size = (n + stride - 1) \div stride
            /\ sampled = {k * stride : k \in 0..(size - 1)}
            /\ n < 2 * SampleTarget => size = n
            /\ size < 2 * SampleTarget

\* a sample taken with a stride above 1 from a count the stride does not
\* divide
C20_Witness ==
    /\ pc = "sampled"
    /\ stride >= 2
    /\ n_points % stride # 0
    /\ Cardinality(sampled) > SampleTarget

\* ---- C21
\* the squared distance of two junctions of the list the loop enumerates
LoopDist2(a, b) == Dist2(loop_list[a].location, loop_list[b].location)

\* C21: when the loop takes candidate i as a seed, the candidates it
\* absorbs are exactly those at a Euclidean distance of at most
\* 1.0 * vertex_radius from the seed in find_vertices and of at most
\* 1.5 * vertex_radius in cluster_vertices, the bound included.
C21_MergeDistancePerPass ==
    [][(pc = "loop" /\ i <= Len(loop_list) /\ i \notin used) =>
          /\ Len(nearby') = Len(nearby) + 1
          /\ \A j \in 1..Len(loop_list) :
                (j \in nearby'[Len(nearby')])
                    <=> (IF pass = "vertex"
                         THEN LoopDist2(i, j) <= vertex_radius * vertex_radius
                         ELSE 4 * LoopDist2(i, j)
                                  <= 9 * vertex_radius * vertex_radius)]_vars

\* find_vertices has merged a seed with a candidate at exactly
\* vertex_radius from it and left out one farther away
C21_Witness ==
    /\ pc = "done"
    /\ pass = "vertex"
    /\ Len(loop_list) = 3
    /\ nearby[1] = {1, 2}
    /\ LoopDist2(1, 2) = vertex_radius * vertex_radius
    /\ LoopDist2(1, 3) > vertex_radius * vertex_radius

\* ---- C25
\* C25: every junction find_vertices returns has num_cells of at least the
\* min_cells_for_vertex of the call (3 in the general pass, the rosette
\* threshold in the rosette pass), and every rosette cluster_vertices
\* returns has num_cells >= min_cells_for_rosette.
C25_OutputsMeetThreshold ==
    /\ \A v \in Range(all_vertices) : v.num_cells >= GeneralMinCells
    /\ \A v \in Range(rosette_vertices) : v.num_cells >= min_cells_for_rosette
    /\ \A r \in Range(rosettes) : r.num_cells >= min_cells_for_rosette

\* the pipeline has returned a general junction and a rosette with the
\* rosette threshold 3
C25_Witness ==
    /\ pc = "done"
    /\ min_cells_for_rosette = GeneralMinCells
    /\ Len(all_vertices) >= 1
    /\ Len(rosettes) >= 1

\* ---- C26
\* C26: when a clustering pass has returned, every candidate that entered
\* the loop is in the nearby_indices of at least one emitted junction, the
\* union of the emitted cell lists is the union of the candidates' cell
\* lists, and no more junctions were emitted than candidates entered.
C26_NoCandidateLost ==
    pc = "done" =>
        /\ UNION {nearby[k] : k \in 1..Len(nearby)} = 1..Len(loop_list)
        /\ CellsOf(PassOutput) = CellsOf(loop_list)
        /\ Len(PassOutput) <= Len(loop_list)

\* a pass over three candidates with different cell lists has returned
\* fewer junctions than candidates
C26_Witness ==
    /\ pc = "done"
    /\ Len(loop_list) = 3
    /\ Len(PassOutput) = 2
    /\ \E a \in 1..3 : \E b \in 1..3 :
          Range(loop_list[a].cells) # Range(loop_list[b].cells)

\* ---- C22
\* C22: once calculate_cell_neighbors has built the neighbor counts, no
\* unordered pair {A, B} of valid cells has been tested for adjacency more
\* than once.
C22_PairTestedAtMostOnce ==
    pc \in {"prepare", "done"} =>
        \A a \in Range(valid_cells) : \A b \in Range(valid_cells) :
            a # b => tests_of_pair(valid_cells, a, b) <= 1

\* ---- C27
\* C27: when both passes of find_vertices have returned, for the cells,
\* mask and radius of the run, every sample point the
\* rosette pass (threshold K2 = min_cells_for_rosette) accepts is accepted
\* with every threshold K1 <= K2, every cell of a junction the rosette pass
\* returned is in a junction find_vertices returns for K1, and with
\* 3 <= K2 it is in a junction of the general pass (K1 = 3).
C27_MonotoneInThreshold ==
    pc = "cluster" =>
        LET points == SamplePoints(mask, shape)
            acceptedK2 == {k \in 1..Len(points) :
                              Accepted(points[k], valid_cells, cell_boundaries,
                                       vertex_radius, min_cells_for_rosette)}
        IN  /\ \A K1 \in 1..min_cells_for_rosette :
                  /\ \A k \in acceptedK2 :
                        Accepted(points[k], valid_cells, cell_boundaries,
                                 vertex_radius, K1)
                  /\ CellsOf(rosette_vertices)
                         \subseteq CellsOf(find_vertices(mask, shape,
                                                         valid_cells,
                                                         cell_boundaries,
                                                         vertex_radius, K1))
            /\ GeneralMinCells <= min_cells_for_rosette
                   => CellsOf(rosette_vertices) \subseteq CellsOf(all_vertices)

\* the rosette pass ran with threshold 3 and returned a junction, and some
\* sample point is accepted with threshold 2 but not with 3
C27_Witness ==
    /\ pc = "cluster"
    /\ min_cells_for_rosette = GeneralMinCells
    /\ Len(rosette_vertices) >= 1
    /\ \E k \in 1..Len(SamplePoints(mask, shape)) :
          /\ Accepted(SamplePoints(mask, shape)[k], valid_cells,
                      cell_boundaries, vertex_radius, 2)
          /\ ~Accepted(SamplePoints(mask, shape)[k], valid_cells,
                       cell_boundaries, vertex_radius, GeneralMinCells)

\* ---- C23
\* the analysis stages of process_single_image, from segmentation on
AnalysisStages ==
    {"detect_cells", "extract_cell_boundaries", "find_vertices",
     "cluster_vertices", "create_base_visualization",
     "prepare_interactive_data"}

\* C23: process_single_image halts at the first failed stage. With no image
\* loaded it has returned success False and called nothing but
\* load_and_validate_images; with an image and zero valid cells it has
\* returned success False and called nothing after detect_cells, and has
\* not written the output file; and the output file is written only when
\* every analysis stage has been called.
C23_HaltsAtFirstFailedStage ==
    /\ (pc # "load" /\ imgs = <<>>) =>
          /\ pc = "returned"
          /\ result = [success |-> FALSE, error |-> "Failed to load image"]
          /\ stages_run = <<"load_and_validate_images">>
          /\ output_file = "absent"
    /\ (pc \notin {"load", "detect"} /\ imgs # <<>> /\ Len(valid_cells) = 0) =>
          /\ pc = "returned"
          /\ result = [success |-> FALSE, error |-> "No valid cells detected"]
          /\ stages_run = <<"load_and_validate_images", "detect_cells">>
          /\ cell_boundaries = <<>>
          /\ output_file = "absent"
    /\ output_file = "written" => AnalysisStages \subseteq Range(stages_run)

\* an image was loaded, the segmentation found labels and the size filter
\* kept none of them: the function has returned after detect_cells
C23_Witness ==
    /\ pc = "returned"
    /\ imgs # <<>>
    /\ \E p \in Pixels(shape) : mask[p] # 0
    /\ Len(valid_cells) = 0
    /\ result # <<>>

\* ---- viewer claims
\* the rosettes of the page, by their JavaScript index
RosetteIndices == 0..(Len(rosette_data) - 1)

\* (x, y) is inside the red dot drawn for rosette n
InRedDot(n, x, y) ==
    Dist2(<<x, y>>, rosette_data[n + 1].center) <= DotRadius * DotRadius

\* removedRosettes after a click at pt in the current state
ClickResult(pt) ==
    removed_after_click(pixelToCellMap, cell_to_rosettes, rosette_data,
                        removedRosettes, pt[1], pt[2])

\* ---- C24
\* C24: in every reachable state of the viewer, a click inside the red dot
\* of a rosette that is not removed adds that rosette's index, and nothing
\* else, to removedRosettes.
C24_ClickOnRedDotRemoves ==
    pc = "viewing" =>
        \A pt \in CanvasPoints : \A n \in RosetteIndices :
            (n \notin removedRosettes /\ InRedDot(n, pt[1], pt[2]))
                => ClickResult(pt) = removedRosettes \cup {n}

\* ---- C28
\* C28: after any sequence of clicks the number shown in rosette-count is
\* the number of rosettes minus the number of removed rosettes, and lies
\* between 0 and the number of rosettes.
C28_CountIsTotalMinusRemoved ==
    pc = "viewing" =>
        /\ removedRosettes \subseteq RosetteIndices
        /\ rosette_count = Len(rosette_data) - Cardinality(removedRosettes)
        /\ 0 <= rosette_count
        /\ rosette_count <= Len(rosette_data)

\* one of two rosettes is removed and the page shows 1
C28_Witness ==
    /\ pc = "viewing"
    /\ Len(rosette_data) = 2
    /\ Cardinality(removedRosettes) = 1
    /\ rosette_count = 1

\* ---- C29
\* C29: in every state reachable by mousemove, mouseleave and click events
\* in any order, currentHighlightedRosettes and removedRosettes are
\* disjoint.
C29_HighlightedNotRemoved ==
    pc = "viewing" => currentHighlightedRosettes \cap removedRosettes = {}

\* a rosette is removed while the pointer is over a cell it shares with a
\* rosette that is highlighted
C29_Witness ==
    /\ pc = "viewing"
    /\ \E c \in DOMAIN cell_to_rosettes :
          /\ Range(cell_to_rosettes[c]) \cap removedRosettes # {}
          /\ currentHighlightedRosettes
                 = Range(cell_to_rosettes[c]) \ removedRosettes
          /\ currentHighlightedRosettes # {}

\* ---- C30
\* C30: a click changes removedRosettes by at most one index; and when
\* rosette n alone is removed, a click on any pixel of any cell of rosette n
\* restores n and leaves removedRosettes empty, as it was before n was
\* removed.
C30_RemoveRestoreRoundTrip ==
    pc = "viewing" =>
        /\ \A pt \in CanvasPoints :
              Cardinality((ClickResult(pt) \ removedRosettes)
                          \cup (removedRosettes \ ClickResult(pt))) <= 1
        /\ \A n \in RosetteIndices :
              removedRosettes = {n} =>
                  \A pt \in CanvasPoints :
                      mask[<<pt[2], pt[1]>>] \in Range(rosette_data[n + 1].cells)
                          => ClickResult(pt) = {}

\* the second of two rosettes has been removed alone, and it shares a cell
\* with the first, which is listed before it for that cell
C30_Witness ==
    /\ pc = "viewing"
    /\ Len(rosette_data) = 2
    /\ removedRosettes = {1}
    /\ \E c \in DOMAIN cell_to_rosettes : cell_to_rosettes[c] = <<0, 1>>

====
